---- MODULE Spec2Model ----
(***************************************************************************)
(* A model of aniloader (anitube-ua-downloader): the playlist structure    *)
(* inference (content detector, voice/player extractor, episode            *)
(* extractor), the player-URL extractor chain and the download             *)
(* orchestration of src/aniloader.                                         *)
(*                                                                         *)
(* Text: playlist ids and URLs are TLA+ strings (ASCII); labels and        *)
(* keywords are sequences of Unicode code points, because the labels are   *)
(* Ukrainian/English text and str.upper() has to be computed on them.      *)
(***************************************************************************)
EXTENDS Integers, Sequences, FiniteSets, TLC

VARIABLES call,       \* the last call of a component: its arguments and result
          html,       \* the playlist page the site serves during the run (DOM)
          pc,         \* position of DownloadOrchestrator.run
          anime,      \* the run's Anime: is_movie, voices, episodes
          all_items,  \* AnitubeScraper._all_items
          sel,        \* run's locals: voice_id, player_id, players
          stats       \* run's result: successful / failed counts

vars == <<call, html, pc, anime, all_items, sel, stats>>

None == "None"

\* ------------------------------------------------------------------ bounds
MaxTexts == 2
MaxCount == 3
MaxItems == 3
MaxLeaves == 3
MaxVideos == 3

\* ------------------------------------------------------------ sequences
Range(s) == {s[i] : i \in 1..Len(s)}

\* all sequences over S of length 0..n
SeqsUpTo(S, n) == UNION {[1..k -> S] : k \in 0..n}

\* ------------------------------------------------------- Python str ops
\* str.startswith on strings
StartsWith(s, p) == Len(s) >= Len(p) /\ SubSeq(s, 1, Len(p)) = p

RECURSIVE SplitFrom(_, _, _)
\* str.split("_"): the segments of s from position i on, cur being the
\* segment collected so far
SplitFrom(s, i, cur) ==
    IF i > Len(s) THEN <<cur>>
    ELSE IF SubSeq(s, i, i) = "_" THEN <<cur>> \o SplitFrom(s, i + 1, "")
    ELSE SplitFrom(s, i + 1, cur \o SubSeq(s, i, i))

Split(s) == SplitFrom(s, 1, "")

RECURSIVE Join(_)
\* "_".join(parts)
Join(parts) ==
    IF Len(parts) = 0 THEN ""
    ELSE IF Len(parts) = 1 THEN parts[1]
    ELSE parts[1] \o "_" \o Join(Tail(parts))

\* str.upper() of one code point (Basic Latin and Cyrillic U+0400..U+045F)
UpperChar(c) ==
    IF c >= 97 /\ c <= 122 THEN c - 32
    ELSE IF c >= 1072 /\ c <= 1103 THEN c - 32
    ELSE IF c >= 1104 /\ c <= 1119 THEN c - 80
    ELSE c

\* str.upper() of a text
Upper(t) == [i \in 1..Len(t) |-> UpperChar(t[i])]

\* kw in t, for texts (substring test)
Contains(t, kw) ==
    \E i \in 1..(Len(t) - Len(kw) + 1) : SubSeq(t, i, i + Len(kw) - 1) = kw

\* --------------------------------------------------------------- keywords
KW_PLEYER == <<1055, 1051, 1045, 1028, 1056>>               \* PLEYER (uk)
KW_PLAYER == <<80, 76, 65, 89, 69, 82>>                     \* PLAYER
KW_SERIYA == <<1057, 1045, 1056, 1030, 1071>>               \* SERIYA (uk)
KW_EPISODE == <<69, 80, 73, 83, 79, 68, 69>>                \* EPISODE
KW_EPIZOD == <<1045, 1055, 1030, 1047, 1054, 1044>>         \* EPIZOD (uk)
KW_FILM_UA == <<1060, 1030, 1051, 1068, 1052>>              \* FILM (uk)
KW_FILM == <<70, 73, 76, 77>>                               \* FILM

\* VoiceExtractor.CATEGORY_KEYWORDS
CATEGORY_KEYWORDS ==
    { <<1054, 1047, 1042, 1059, 1063, 1045, 1053, 1053, 1071>>,            \* OZVUCHENNYA
      <<1057, 1059, 1041, 1058, 1048, 1058, 1056, 1048>>,                  \* SUBTYTRY
      <<68, 85, 66, 66, 73, 78, 71>>,                                      \* DUBBING
      <<83, 85, 66, 84, 73, 84, 76, 69, 83>>,                              \* SUBTITLES
      <<1059, 1050, 1056, 1040, 1031, 1053, 1057, 1068, 1050, 1054, 1070>>, \* UKRAINSKOYU
      <<82, 85, 83, 83, 73, 65, 78>>,                                      \* RUSSIAN
      <<69, 78, 71, 76, 73, 83, 72>> }                                     \* ENGLISH

\* ------------------------------------------------------------ sample text
T_Tonis == <<84, 111, 110, 105, 115>>                                \* "Tonis"
T_PleyerAshdi == <<1055, 1051, 1045, 1028, 1056, 32, 65, 83, 72, 68, 73>> \* "PLEYER ASHDI" (uk, upper case)
T_PlayerMoon == <<80, 108, 97, 121, 101, 114, 32, 77, 111, 111, 110>>  \* "Player Moon"
T_Ozvuchennya == <<1054, 1079, 1074, 1091, 1095, 1077, 1085, 1085, 1103>> \* "Ozvuchennya" (uk, capitalised)
T_Seriya1 == <<49, 32, 1089, 1077, 1088, 1110, 1103>>                \* "1 seriya" (uk, lower case)
T_Episode2 == <<69, 112, 105, 115, 111, 100, 101, 32, 50>>           \* "Episode 2"
T_Epizod3 == <<1077, 1087, 1110, 1079, 1086, 1076, 32, 51>>          \* "epizod 3" (uk, lower case)
T_FilmUa == <<1060, 1030, 1051, 1068, 1052>>                         \* "FILM" (uk, upper case)
T_Film == <<102, 105, 108, 109>>                                     \* "film"
T_X == <<88>>                                                        \* "X"

\* episode labels the playlist pages are drawn from
EpisodeTexts == {T_Seriya1, T_Episode2, T_Epizod3, T_FilmUa, T_Film, T_X}
\* those of them that name an episode of a series, in whatever case
SeriesTexts == {T_Seriya1, T_Episode2, T_Epizod3}
\* those of them that name a film
MovieTexts == {T_FilmUa, T_Film}

\* ------------------------------------------------- ContentTypeDetector
has_movie_label(episode_texts) ==
    \E text \in Range(episode_texts) :
        Contains(Upper(text), KW_FILM_UA) \/ Contains(Upper(text), KW_FILM)

\* variant: the keywords are looked for in the labels as written
has_series_label_lower(episode_texts) ==
    \E text \in Range(episode_texts) :
        \/ Contains(text, KW_SERIYA)
        \/ Contains(text, KW_EPISODE)
        \/ Contains(text, KW_EPIZOD)

has_series_label(episode_texts) ==
    \E text \in Range(episode_texts) :
        \/ Contains(Upper(text), KW_SERIYA)
        \/ Contains(Upper(text), KW_EPISODE)
        \/ Contains(Upper(text), KW_EPIZOD)

has_multiple_episodes(unique_files_count, total_items_count) ==
    unique_files_count > total_items_count

\* detect_is_movie: TRUE for a movie, FALSE for a series
detect_is_movie(episode_texts, unique_files_count, total_items_count) ==
    IF has_series_label(episode_texts) THEN FALSE
    ELSE IF has_multiple_episodes(unique_files_count, total_items_count) THEN FALSE
    ELSE TRUE

\* ------------------------------------------------------ playlist items
\* HTMLParser.parse_voice_items builds each item from a <li>: its data-id,
\* its text and the number of "_"-separated parts of the id
Item(id, name) == [id |-> id, name |-> name, parts_count |-> Len(Split(id))]

Voice(item) == [id |-> item.id, name |-> item.name]
Player(item) == [id |-> item.id, name |-> item.name]

\* item names the playlist pages are drawn from
ItemNames == {T_Tonis, T_PleyerAshdi, T_PlayerMoon, T_Ozvuchennya}
\* those of them that name a player, in whatever case
PlayerNames == {T_PleyerAshdi, T_PlayerMoon}
\* those of them that name a category
CategoryNames == {T_Ozvuchennya}

\* HTMLParser.get_max_depth
get_max_depth(items) ==
    IF Len(items) = 0 THEN 0
    ELSE CHOOSE d \in {items[i].parts_count : i \in 1..Len(items)} :
            \A i \in 1..Len(items) : items[i].parts_count <= d

\* ------------------------------------------------------- VoiceExtractor

\* "PLEYER" in name.upper() or "PLAYER" in name.upper()
is_player(name) ==
    Contains(Upper(name), KW_PLEYER) \/ Contains(Upper(name), KW_PLAYER)

all_have_player_keyword(items) ==
    \A i \in 1..Len(items) : is_player(items[i].name)

is_category(name) == \E keyword \in CATEGORY_KEYWORDS : Contains(Upper(name), keyword)

\* variant: items at the deepest level count as voices too
movie_voice_le(item, max_depth) ==
    ~is_player(item.name) /\ item.parts_count <= max_depth

\* the test of the nested branch of _extract_voices_for_movie
movie_voice(item, max_depth) ==
    ~is_player(item.name) /\ item.parts_count < max_depth

extract_voices_for_movie(items, max_depth) ==
    IF all_have_player_keyword(items)
    THEN [i \in 1..Len(items) |-> Voice(items[i])]
    ELSE LET kept == SelectSeq(items, LAMBDA item : movie_voice(item, max_depth))
         IN [i \in 1..Len(kept) |-> Voice(kept[i])]

\* variant: the deepest level is skipped whatever max_depth is
series_skip_always_max_depth(item, max_depth) ==
    \/ is_player(item.name)
    \/ item.parts_count = max_depth
    \/ is_category(item.name)

\* the skip test of the nested branch of _extract_voices_for_series
series_skip(item, max_depth) ==
    \/ is_player(item.name)
    \/ (item.parts_count = max_depth /\ max_depth > 2)
    \/ is_category(item.name)

extract_voices_for_series(items, max_depth) ==
    IF all_have_player_keyword(items)
    THEN [i \in 1..Len(items) |-> Voice(items[i])]
    ELSE LET kept == SelectSeq(items, LAMBDA item : ~series_skip(item, max_depth))
         IN [i \in 1..Len(kept) |-> Voice(kept[i])]

extract_voices(items, is_movie, max_depth) ==
    IF is_movie THEN extract_voices_for_movie(items, max_depth)
    ELSE extract_voices_for_series(items, max_depth)

\* variant: the prefix is compared without the separator
is_child_raw_prefix(item, parent_id) ==
    /\ StartsWith(item.id, parent_id)
    /\ item.parts_count = Len(Split(parent_id)) + 1

\* item_id.startswith(parent_id + "_") and parts_count == parent depth + 1
is_child(item, parent_id) ==
    /\ StartsWith(item.id, parent_id \o "_")
    /\ item.parts_count = Len(Split(parent_id)) + 1

extract_players_for_voice(items, voice_id) ==
    LET kept == SelectSeq(items, LAMBDA item : is_child(item, voice_id))
    IN [i \in 1..Len(kept) |-> Player(kept[i])]

\* HTMLParser.filter_items_by_parent
filter_items_by_parent(items, parent_id) ==
    SelectSeq(items, LAMBDA item : is_child(item, parent_id))

\* ----------------------------------------------------- EpisodeExtractor
\* "not x" of Python for an optional string: None or the empty string
Falsy(x) == x = None \/ x = ""

Episode(number, data_id, data_file) ==
    [number |-> number, data_id |-> data_id, data_file |-> data_file,
     m3u8_url |-> None]

\* the positions, in order, at which the sequence of flags holds TRUE
KeptPositions(flags) ==
    SelectSeq([i \in 1..Len(flags) |-> i], LAMBDA i : flags[i])

\* the test of the flat branch of _extract_movie_episodes
movie_flat_keep(item, voice_id) ==
    /\ item.data_file # ""
    /\ (voice_id = "" \/ item.data_id = voice_id)

\* variant: the player id is not looked at
movie_nested_keep_voice_only(item, voice_id, player_id) ==
    /\ item.data_file # ""
    /\ (voice_id = "" \/ StartsWith(item.data_id, voice_id))

\* the test of the nested branch of _extract_movie_episodes
movie_nested_keep(item, voice_id, player_id) ==
    /\ item.data_file # ""
    /\ (voice_id = "" \/ StartsWith(item.data_id, voice_id))
    /\ (Falsy(player_id) \/ StartsWith(item.data_id, player_id))

extract_movie_episodes(episode_items, voice_id, player_id, items) ==
    LET kept == IF all_have_player_keyword(items)
                THEN SelectSeq(episode_items,
                               LAMBDA item : movie_flat_keep(item, voice_id))
                ELSE SelectSeq(episode_items,
                               LAMBDA item : movie_nested_keep(item, voice_id, player_id))
    IN [i \in 1..Len(kept) |-> Episode(1, kept[i].data_id, kept[i].data_file)]

\* the first player under the voice: the first voice_depth + 1 parts of the
\* first item whose id starts with voice_id and has that many parts; None
\* when the loop ends without a break
first_player_under(episode_items, voice_id) ==
    LET player_depth == Len(Split(voice_id)) + 1
        found == KeptPositions([i \in 1..Len(episode_items) |->
                    /\ StartsWith(episode_items[i].data_id, voice_id)
                    /\ Len(Split(episode_items[i].data_id)) >= player_depth])
    IN IF Len(found) = 0 THEN None
       ELSE Join(SubSeq(Split(episode_items[found[1]].data_id), 1, player_depth))

\* variant: the direct case wins over a player id that was given
resolve_player_id_direct_first(episode_items, voice_id, player_id) ==
    LET has_direct_episodes ==
            \E i \in 1..Len(episode_items) : episode_items[i].data_id = voice_id
    IN IF has_direct_episodes THEN voice_id
       ELSE IF Falsy(player_id) /\ voice_id # ""
            THEN first_player_under(episode_items, voice_id)
       ELSE player_id

\* the player id _extract_series_episodes filters by
resolve_player_id(episode_items, voice_id, player_id) ==
    LET has_direct_episodes ==
            \E i \in 1..Len(episode_items) : episode_items[i].data_id = voice_id
    IN IF has_direct_episodes /\ Falsy(player_id) THEN voice_id
       ELSE IF Falsy(player_id) /\ voice_id # ""
            THEN first_player_under(episode_items, voice_id)
       ELSE player_id

\* item.get("number", idx): idx is the item's 1-based place in episode_items,
\* position its place among the episodes returned
number_of(item, idx, position) ==
    IF "number" \in DOMAIN item THEN item.number ELSE idx

extract_series_episodes(episode_items, voice_id, player_id) ==
    LET pid == resolve_player_id(episode_items, voice_id, player_id)
        kept == KeptPositions([i \in 1..Len(episode_items) |->
                    /\ episode_items[i].data_file # ""
                    /\ (Falsy(pid) \/ StartsWith(episode_items[i].data_id, pid))])
    IN [k \in 1..Len(kept) |->
            Episode(number_of(episode_items[kept[k]], kept[k], k),
                    episode_items[kept[k]].data_id,
                    episode_items[kept[k]].data_file)]

extract_episodes(episode_items, voice_id, player_id, is_movie, items) ==
    IF is_movie
    THEN extract_movie_episodes(episode_items, voice_id, player_id, items)
    ELSE extract_series_episodes(episode_items, voice_id, player_id)

\* ----------------------------------------------------------- the calls
NoCall == [op |-> "none"]

CallDetect ==
    /\ call = NoCall
    /\ \E texts \in SeqsUpTo(EpisodeTexts, MaxTexts), u \in 0..MaxCount, t \in 0..MaxCount :
        call' = [op |-> "detect_is_movie", episode_texts |-> texts,
                 unique_files_count |-> u, total_items_count |-> t,
                 result |-> detect_is_movie(texts, u, t)]
    /\ UNCHANGED <<html, pc, anime, all_items, sel, stats>>

\* ids of the item lists the voice extractor is called on (depths 1..3)
VoiceItemIds == {"0", "0_0", "0_0_0"}
\* ids of the item lists the player lookup is called on: children, a
\* grandchild and items of the sibling branch 0_10 of the voices 0 and 0_1
ChildItemIds == {"0_1", "0_10", "0_1_0", "0_1_1", "0_10_0", "0_1_0_0"}
ParentIds == {"0", "0_1"}
MaxDepths == 1..3

CallExtractVoices ==
    /\ call = NoCall
    /\ \E items \in SeqsUpTo({Item(id, n) : id \in VoiceItemIds, n \in ItemNames}, MaxItems),
          is_movie \in BOOLEAN, max_depth \in MaxDepths :
        call' = [op |-> "extract_voices", all_items |-> items,
                 is_movie |-> is_movie, max_depth |-> max_depth,
                 result |-> extract_voices(items, is_movie, max_depth)]
    /\ UNCHANGED <<html, pc, anime, all_items, sel, stats>>

CallExtractPlayers ==
    /\ call = NoCall
    /\ \E items \in SeqsUpTo({Item(id, T_Tonis) : id \in ChildItemIds}, MaxItems),
          voice_id \in ParentIds :
        call' = [op |-> "extract_players_for_voice", all_items |-> items,
                 parent_id |-> voice_id,
                 result |-> extract_players_for_voice(items, voice_id)]
    /\ UNCHANGED <<html, pc, anime, all_items, sel, stats>>

CallFilterByParent ==
    /\ call = NoCall
    /\ \E items \in SeqsUpTo({Item(id, T_Tonis) : id \in ChildItemIds}, MaxItems),
          parent_id \in ParentIds :
        call' = [op |-> "filter_items_by_parent", all_items |-> items,
                 parent_id |-> parent_id,
                 result |-> filter_items_by_parent(items, parent_id)]
    /\ UNCHANGED <<html, pc, anime, all_items, sel, stats>>

\* episode items the episode extractor is called on: the voice 0_0 itself,
\* its players 0_0_0 and 0_0_1, another voice, one item without a file
LeafItems ==
    { [data_id |-> "0_0", data_file |-> "a"],
      [data_id |-> "0_0_0", data_file |-> "b"],
      [data_id |-> "0_0_1", data_file |-> "c"],
      [data_id |-> "0_0_1", data_file |-> ""],
      [data_id |-> "0_1_0", data_file |-> "d"] }
LeafVoiceIds == {"0", "0_0", "0_2"}
LeafPlayerIds == {None, "0_0_0", "0_0_1"}
\* the item lists that decide the shape: none, flat, nested
ShapeItems ==
    { <<>>,
      <<Item("0_0", T_PleyerAshdi), Item("0_1", T_PlayerMoon)>>,
      <<Item("0_0", T_Tonis), Item("0_0_0", T_PleyerAshdi), Item("0_0_1", T_PlayerMoon)>> }

CallExtractSeries ==
    /\ call = NoCall
    /\ \E items \in SeqsUpTo(LeafItems, MaxLeaves),
          voice_id \in LeafVoiceIds, player_id \in LeafPlayerIds :
        call' = [op |-> "extract_episodes", is_movie |-> FALSE,
                 episode_items |-> items, voice_id |-> voice_id,
                 player_id |-> player_id, all_items |-> <<>>,
                 result |-> extract_episodes(items, voice_id, player_id, FALSE, <<>>)]
    /\ UNCHANGED <<html, pc, anime, all_items, sel, stats>>

CallExtractMovie ==
    /\ call = NoCall
    /\ \E items \in SeqsUpTo(LeafItems, MaxLeaves),
          voice_id \in LeafVoiceIds, player_id \in LeafPlayerIds,
          shape \in ShapeItems :
        call' = [op |-> "extract_episodes", is_movie |-> TRUE,
                 episode_items |-> items, voice_id |-> voice_id,
                 player_id |-> player_id, all_items |-> shape,
                 result |-> extract_episodes(items, voice_id, player_id, TRUE, shape)]
    /\ UNCHANGED <<html, pc, anime, all_items, sel, stats>>

\* ------------------------------------------------------------ the run
NoAnime == [is_movie |-> FALSE, voices |-> <<>>, episodes |-> <<>>]
NoSel == [voice_id |-> None, player_id |-> None, players |-> <<>>]
NoStats == [successful |-> 0, failed |-> 0]
NoHtml == [kind |-> "playlist", lists |-> <<>>, videos |-> <<>>]

\* ------------------------------------------------------------ HTMLParser
\* parse_voice_items: the <li> of .playlists-lists with a data-id and a text
parse_voice_items(page) ==
    LET kept == SelectSeq(page.lists, LAMBDA li : li.id # "" /\ li.text # <<>>)
    IN [i \in 1..Len(kept) |-> Item(kept[i].id, kept[i].text)]

\* the <li> of .playlists-videos that parse_episode_items keeps
parse_keep(li, player_id) ==
    li.id # "" /\ li.file # "" /\ StartsWith(li.id, player_id)

\* parse_episode_items: the kept <li>, numbered 1, 2, ... as they are kept
parse_episode_items(page, player_id) ==
    LET kept == SelectSeq(page.videos, LAMBDA li : parse_keep(li, player_id))
    IN [i \in 1..Len(kept) |->
            [number |-> i, data_id |-> kept[i].id, data_file |-> kept[i].file]]

get_episode_texts(page) == [i \in 1..Len(page.videos) |-> page.videos[i].text]

get_unique_episode_files(page) ==
    {page.videos[i].file : i \in 1..Len(page.videos)} \ {""}

\* -------------------------------------------------------- AnitubeScraper
\* What the site serves does not change during a run: the playlist (kind
\* "playlist"), or, for a page of the old format, a JSON answer without
\* playlist that sends the scraper to the embedded iframe of the anime page,
\* which is there (kind "iframe") or not (kind "no_iframe").  What changes
\* from one request to the next is whether the request fails (network,
\* status; also the page request of the fallback): fails is TRUE then.

IframeUrl == "https://ashdi/frame"

\* _parse_embedded_iframe
parse_embedded_iframe(a, found) ==
    IF found
    THEN [a EXCEPT !.is_movie = TRUE,
                   !.voices = <<[id |-> "0", name |-> T_Tonis]>>,
                   !.episodes = <<Episode(1, "0", IframeUrl)>>]
    ELSE [a EXCEPT !.is_movie = TRUE, !.voices = <<>>, !.episodes = <<>>]

\* variant: the episode items are parsed even when no voice id is at hand
playlist_parsed_unguarded(a, page, voice_id, player_id) ==
    LET items == parse_voice_items(page)
        is_movie == detect_is_movie(get_episode_texts(page),
                                    Cardinality(get_unique_episode_files(page)),
                                    Len(items))
        voices == extract_voices(items, is_movie, get_max_depth(items))
        vid == IF Falsy(voice_id) /\ Len(voices) > 0 THEN voices[1].id ELSE voice_id
        raw == parse_episode_items(page, IF Falsy(vid) THEN "" ELSE vid)
        episodes == extract_episodes(raw, IF Falsy(vid) THEN "" ELSE vid,
                                     player_id, is_movie, items)
    IN IF Len(items) = 0
       THEN [anime |-> a, all_items |-> items]
       ELSE [anime |-> [a EXCEPT !.is_movie = is_movie, !.voices = voices,
                                 !.episodes = episodes],
             all_items |-> items]

\* variant: the resolved episodes are added to the ones anime already holds
playlist_parsed_appending(a, page, voice_id, player_id) ==
    LET items == parse_voice_items(page)
        is_movie == detect_is_movie(get_episode_texts(page),
                                    Cardinality(get_unique_episode_files(page)),
                                    Len(items))
        voices == extract_voices(items, is_movie, get_max_depth(items))
        vid == IF Falsy(voice_id) /\ Len(voices) > 0 THEN voices[1].id ELSE voice_id
        raw == IF ~Falsy(vid) THEN parse_episode_items(page, vid) ELSE <<>>
        episodes == extract_episodes(raw, IF Falsy(vid) THEN "" ELSE vid,
                                     player_id, is_movie, items)
    IN IF Len(items) = 0
       THEN [anime |-> a, all_items |-> items]
       ELSE [anime |-> [a EXCEPT !.is_movie = is_movie, !.voices = voices,
                                 !.episodes = a.episodes \o episodes],
             all_items |-> items]

\* the part of fetch_playlist that follows the request: anime and _all_items
\* after it
playlist_parsed(a, page, voice_id, player_id) ==
    LET items == parse_voice_items(page)
        is_movie == detect_is_movie(get_episode_texts(page),
                                    Cardinality(get_unique_episode_files(page)),
                                    Len(items))
        voices == extract_voices(items, is_movie, get_max_depth(items))
        vid == IF Falsy(voice_id) /\ Len(voices) > 0 THEN voices[1].id ELSE voice_id
        raw == IF ~Falsy(vid) THEN parse_episode_items(page, vid) ELSE <<>>
        episodes == extract_episodes(raw, IF Falsy(vid) THEN "" ELSE vid,
                                     player_id, is_movie, items)
    IN IF Len(items) = 0
       THEN [anime |-> a, all_items |-> items]
       ELSE [anime |-> [a EXCEPT !.is_movie = is_movie, !.voices = voices,
                                 !.episodes = episodes],
             all_items |-> items]

\* fetch_playlist(anime, voice_id, player_id) on the site serving page, the
\* request failing or not
fetch_playlist(a, items, page, voice_id, player_id, fails) ==
    IF fails THEN [anime |-> a, all_items |-> items]
    ELSE IF page.kind = "iframe"
    THEN [anime |-> parse_embedded_iframe(a, TRUE), all_items |-> items]
    ELSE IF page.kind = "no_iframe"
    THEN [anime |-> parse_embedded_iframe(a, FALSE), all_items |-> items]
    ELSE playlist_parsed(a, page, voice_id, player_id)

\* --------------------------------------------------- DownloadOrchestrator
\* run, step 1: fetch_anime_metadata requests the anime page (which may
\* fail and raise) and fetches the playlist; step 2 ends the run without
\* voices
RunFetchMetadata ==
    /\ pc = "start"
    /\ \/ /\ pc' = "raised"
          /\ UNCHANGED <<anime, all_items>>
       \/ \E fails \in BOOLEAN :
            LET r == fetch_playlist(NoAnime, all_items, html, None, None, fails)
            IN /\ anime' = r.anime
               /\ all_items' = r.all_items
               /\ pc' = IF Len(r.anime.voices) = 0 THEN "done" ELSE "select_voice"
    /\ UNCHANGED <<call, html, sel, stats>>

\* run, steps 2 and 3: the voice is taken by index or chosen at the prompt;
\* for a series the players of the voice are looked up
RunSelectVoice ==
    /\ pc = "select_voice"
    /\ \/ /\ pc' = "done"          \* voice_index out of range
          /\ UNCHANGED <<sel, anime, all_items>>
       \/ /\ pc' = "cancelled"     \* KeyboardInterrupt at the prompt
          /\ UNCHANGED <<sel, anime, all_items>>
       \/ \E i \in 1..Len(anime.voices), fails \in BOOLEAN :
            LET voice_id == anime.voices[i].id
                \* get_available_players fetches the playlist first when
                \* _all_items is empty
                r == IF ~anime.is_movie /\ Len(all_items) = 0
                     THEN fetch_playlist(anime, all_items, html, None, None, fails)
                     ELSE [anime |-> anime, all_items |-> all_items]
                players == IF anime.is_movie THEN <<>>
                           ELSE extract_players_for_voice(r.all_items, voice_id)
            IN /\ sel' = [voice_id |-> voice_id, player_id |-> None,
                          players |-> players]
               /\ anime' = r.anime
               /\ all_items' = r.all_items
               /\ pc' = IF Len(players) > 0 THEN "select_player"
                        ELSE "fetch_episodes"
    /\ UNCHANGED <<call, html, stats>>

\* run, step 3: the player is chosen at the prompt
RunSelectPlayer ==
    /\ pc = "select_player"
    /\ \/ /\ pc' = "cancelled"     \* KeyboardInterrupt at the prompt
          /\ UNCHANGED sel
       \/ \E i \in 1..Len(sel.players) :
            /\ sel' = [sel EXCEPT !.player_id = sel.players[i].id]
            /\ pc' = "fetch_episodes"
    /\ UNCHANGED <<call, html, anime, all_items, stats>>

\* variant: step 4 without the `if not anime.episodes: return` of the run
RunFetchEpisodes_no_return ==
    /\ pc = "fetch_episodes"
    /\ \E fails \in BOOLEAN :
        LET r == fetch_playlist(anime, all_items, html, sel.voice_id,
                                sel.player_id, fails)
        IN /\ anime' = r.anime
           /\ all_items' = r.all_items
           /\ pc' = "extract"
           /\ call' = [op |-> "ajax_playlist_request", fails |-> fails]
    /\ UNCHANGED <<html, sel, stats>>

\* run, step 4: the playlist is fetched again for the selection; the run
\* ends when there are no episodes.  call keeps how the one request of this
\* step ended.
RunFetchEpisodes ==
    /\ pc = "fetch_episodes"
    /\ \E fails \in BOOLEAN :
        LET r == fetch_playlist(anime, all_items, html, sel.voice_id,
                                sel.player_id, fails)
        IN /\ anime' = r.anime
           /\ all_items' = r.all_items
           /\ pc' = IF Len(r.anime.episodes) = 0 THEN "done" ELSE "extract"
           /\ call' = [op |-> "ajax_playlist_request", fails |-> fails]
    /\ UNCHANGED <<html, sel, stats>>

StreamUrl(episode) == "m3u8:" \o episode.data_file

\* run, step 5: extract_all_m3u8_urls sets every episode's m3u8_url, to a
\* URL or to None; the run ends when no episode has a URL
RunExtractUrls ==
    /\ pc = "extract"
    /\ \E ok \in [1..Len(anime.episodes) -> BOOLEAN] :
        /\ anime' = [anime EXCEPT !.episodes =
                        [i \in 1..Len(anime.episodes) |->
                            [anime.episodes[i] EXCEPT !.m3u8_url =
                                IF ok[i] THEN StreamUrl(anime.episodes[i]) ELSE None]]]
        /\ pc' = IF \E i \in 1..Len(anime.episodes) : ok[i] THEN "download"
                 ELSE "done"
    /\ UNCHANGED <<call, html, all_items, sel, stats>>

\* variant: the download clears the URL of the episodes it was given
RunDownload_clears_url ==
    /\ pc = "download"
    /\ LET n == Cardinality({i \in 1..Len(anime.episodes) :
                                anime.episodes[i].m3u8_url # None})
       IN \E successful \in 0..n :
            stats' = [successful |-> successful, failed |-> n - successful]
    /\ anime' = [anime EXCEPT !.episodes =
                    [i \in 1..Len(anime.episodes) |->
                        [anime.episodes[i] EXCEPT !.m3u8_url = None]]]
    /\ pc' = "done"
    /\ UNCHANGED <<call, html, all_items, sel>>

\* run, steps 6 to 8: every episode with a URL is downloaded and counted as
\* successful or failed
RunDownload ==
    /\ pc = "download"
    /\ LET n == Cardinality({i \in 1..Len(anime.episodes) :
                                anime.episodes[i].m3u8_url # None})
       IN \E successful \in 0..n :
            stats' = [successful |-> successful, failed |-> n - successful]
    /\ pc' = "done"
    /\ UNCHANGED <<call, html, anime, all_items, sel>>

\* ------------------------------------------------------- playlist pages
\* the <li> of .playlists-lists: a voice with two players, and a category
NavLis ==
    << [id |-> "0_0", text |-> T_Tonis],
       [id |-> "0_0_0", text |-> T_PleyerAshdi],
       [id |-> "0_0_1", text |-> T_PlayerMoon],
       [id |-> "0_1", text |-> T_Ozvuchennya] >>

\* the <li> of .playlists-videos: episodes of the two players, one of them
\* labelled as an episode, one without a file, and an item of the voice
VideoLis ==
    { [id |-> "0_0_0", file |-> "a", text |-> T_X],
      [id |-> "0_0_1", file |-> "b", text |-> T_Seriya1],
      [id |-> "0_0_1", file |-> "c", text |-> T_X],
      [id |-> "0_0_1", file |-> "", text |-> T_X],
      [id |-> "0_0", file |-> "d", text |-> T_Film] }

\* the subsequences of s
SubSeqsOf(s) ==
    { LET pos == KeptPositions([i \in 1..Len(s) |-> i \in keep])
      IN [k \in 1..Len(pos) |-> s[pos[k]]] : keep \in SUBSET (1..Len(s)) }

Pages ==
    { [kind |-> "playlist", lists |-> l, videos |-> v] :
        l \in SubSeqsOf(NavLis), v \in SeqsUpTo(VideoLis, MaxVideos) }
    \cup { [kind |-> k, lists |-> <<>>, videos |-> <<>>] : k \in {"iframe", "no_iframe"} }

Init ==
    /\ call = NoCall
    /\ html \in Pages
    /\ pc = "start"
    /\ anime = NoAnime
    /\ all_items = <<>>
    /\ sel = NoSel
    /\ stats = NoStats

Next ==
    \/ RunFetchMetadata
    \/ RunSelectVoice
    \/ RunSelectPlayer
    \/ RunFetchEpisodes
    \/ RunExtractUrls
    \/ RunDownload

\* one run of the orchestrator on every playlist page
Spec == Init /\ [][Next]_vars

InitIdle ==
    /\ call = NoCall
    /\ html = NoHtml
    /\ pc = "idle"
    /\ anime = NoAnime
    /\ all_items = <<>>
    /\ sel = NoSel
    /\ stats = NoStats

\* the content detector, called on every label list and count
SpecDetect == InitIdle /\ [][CallDetect]_vars

\* C2: detect_is_movie answers Series when a label names an episode (in any
\* case), otherwise Series when there are more unique files than items,
\* otherwise Movie; equal counts without a series label give Movie, and a
\* film label never changes the answer.
C2_DetectOrder ==
    call.op = "detect_is_movie" =>
        LET labelled == \E i \in 1..Len(call.episode_texts) :
                            call.episode_texts[i] \in SeriesTexts
            noFilm == SelectSeq(call.episode_texts, LAMBDA t : t \notin MovieTexts)
        IN /\ call.result =
                (IF labelled THEN FALSE
                 ELSE IF call.unique_files_count > call.total_items_count THEN FALSE
                 ELSE TRUE)
           /\ (~labelled /\ call.unique_files_count = call.total_items_count)
                 => call.result = TRUE
           /\ call.result = detect_is_movie(noFilm, call.unique_files_count,
                                            call.total_items_count)

\* a film label together with more files than items: the answer is Series
C2_Witness ==
    /\ call.op = "detect_is_movie"
    /\ \E i \in 1..Len(call.episode_texts) : call.episode_texts[i] \in MovieTexts
    /\ \A i \in 1..Len(call.episode_texts) : call.episode_texts[i] \notin SeriesTexts
    /\ call.unique_files_count > call.total_items_count
    /\ call.result = FALSE

\* the voice extractor and the parent filter, called on every item list
SpecVoices ==
    InitIdle /\ [][CallExtractVoices \/ CallExtractPlayers \/ CallFilterByParent]_vars

\* the ids of a list of items, voices or players, in order
Ids(s) == [i \in 1..Len(s) |-> s[i].id]

\* every item of the call carries a player name
C_FlatShape == \A i \in 1..Len(call.all_items) : call.all_items[i].name \in PlayerNames

\* the voices made of the items of the call that satisfy Keep, in input order
C_VoicesOf(Keep(_)) ==
    LET kept == SelectSeq(call.all_items, Keep)
    IN [i \in 1..Len(kept) |-> [id |-> kept[i].id, name |-> kept[i].name]]

\* C5: extract_voices for a series returns every item when all the labels
\* name a player; otherwise exactly the items, in input order, that name no
\* player and no category and that are not at max_depth when max_depth > 2.
C5_SeriesVoices ==
    (call.op = "extract_voices" /\ ~call.is_movie) =>
        IF C_FlatShape
        THEN call.result = C_VoicesOf(LAMBDA item : TRUE)
        ELSE call.result =
                C_VoicesOf(LAMBDA item :
                    /\ item.name \notin PlayerNames
                    /\ item.name \notin CategoryNames
                    /\ (call.max_depth > 2 => item.parts_count # call.max_depth))

\* a nested series list with max_depth 2 that holds a category and whose
\* item at depth 2 is a voice
C5_Witness ==
    /\ call.op = "extract_voices" /\ ~call.is_movie /\ ~C_FlatShape
    /\ call.max_depth = 2
    /\ \E i \in 1..Len(call.all_items) :
          /\ call.all_items[i].parts_count = 2
          /\ call.all_items[i].id \in Range(Ids(call.result))
    /\ \E i \in 1..Len(call.all_items) :
          call.all_items[i].name \in CategoryNames

\* C6: extract_voices for a movie returns every item when all the labels
\* name a player; otherwise exactly the items, in input order, that name no
\* player and whose depth is strictly less than max_depth.
C6_MovieVoices ==
    (call.op = "extract_voices" /\ call.is_movie) =>
        IF C_FlatShape
        THEN call.result = C_VoicesOf(LAMBDA item : TRUE)
        ELSE call.result =
                C_VoicesOf(LAMBDA item :
                    /\ item.name \notin PlayerNames
                    /\ item.parts_count < call.max_depth)

\* a nested movie list with a plain item at max_depth (no voice) and one
\* above it (a voice)
C6_Witness ==
    /\ call.op = "extract_voices" /\ call.is_movie /\ ~C_FlatShape
    /\ call.max_depth = get_max_depth(call.all_items)
    /\ \E i \in 1..Len(call.all_items) :
          /\ call.all_items[i].parts_count = call.max_depth
          /\ call.all_items[i].name \notin PlayerNames
    /\ Len(call.result) = 1

\* child is a direct child of parent in the id tree: one segment more, the
\* same leading segments
C_DirectChild(parent, child) ==
    LET p == Split(parent)
        c == Split(child)
    IN Len(c) = Len(p) + 1 /\ SubSeq(c, 1, Len(p)) = p

\* C7: extract_players_for_voice and filter_items_by_parent return, in input
\* order, exactly the direct children of the given id: no deeper descendant
\* and no item of a branch whose id only shares a string prefix with it.
C7_DirectChildren ==
    (call.op \in {"extract_players_for_voice", "filter_items_by_parent"}) =>
        LET kept == SelectSeq(call.all_items,
                              LAMBDA item : C_DirectChild(call.parent_id, item.id))
        IN /\ Ids(call.result) = Ids(kept)
           /\ call.op = "filter_items_by_parent" => call.result = kept
           /\ \A i \in 1..Len(call.result) : call.result[i].id \notin {"0_10", "0_10_0"}
                 \/ call.parent_id # "0_1"

\* players of 0_1 looked up in a list holding a child, a grandchild and the
\* sibling branch 0_10_0
C7_Witness ==
    /\ call.op = "extract_players_for_voice"
    /\ call.parent_id = "0_1"
    /\ {"0_1_0", "0_10_0", "0_1_0_0"} \subseteq Range(Ids(call.all_items))
    /\ Ids(call.result) = <<"0_1_0">>

\* the episode extractor, called on every list of episode items
SpecEpisodes == InitIdle /\ [][CallExtractSeries \/ CallExtractMovie]_vars

\* the episodes (numbers left aside) made of the leaf items of the call that
\* have a source reference and satisfy Keep, in DOM order
C_Leaves(Keep(_)) ==
    LET kept == SelectSeq(call.episode_items,
                          LAMBDA item : item.data_file # "" /\ Keep(item))
    IN [i \in 1..Len(kept) |-> <<kept[i].data_id, kept[i].data_file>>]

C_Sources(episodes) ==
    [i \in 1..Len(episodes) |-> <<episodes[i].data_id, episodes[i].data_file>>]

C_HasDirect == \E i \in 1..Len(call.episode_items) :
                    call.episode_items[i].data_id = call.voice_id

\* the leaf items under the voice that are long enough to name a player
C_UnderVoice ==
    SelectSeq(call.episode_items,
              LAMBDA item : /\ StartsWith(item.data_id, call.voice_id)
                            /\ Len(Split(item.data_id)) > Len(Split(call.voice_id)))

C_FirstUnderVoice ==
    Join(SubSeq(Split(C_UnderVoice[1].data_id), 1, Len(Split(call.voice_id)) + 1))

C4_MovieEpisodes ==
    (call.op = "extract_episodes" /\ call.is_movie) =>
        /\ \A i \in 1..Len(call.result) : call.result[i].number = 1
        /\ IF C_FlatShape
           THEN C_Sources(call.result) =
                    C_Leaves(LAMBDA item : item.data_id = call.voice_id)
           ELSE C_Sources(call.result) =
                    C_Leaves(LAMBDA item :
                        /\ StartsWith(item.data_id, call.voice_id)
                        /\ (call.player_id # None
                                => StartsWith(item.data_id, call.player_id)))

\* a nested movie with a chosen player: of the items under the voice only
\* the chosen player's is returned
C4_Witness ==
    /\ call.op = "extract_episodes" /\ call.is_movie /\ ~C_FlatShape
    /\ call.voice_id = "0_0" /\ call.player_id = "0_0_1"
    /\ {"0_0_0", "0_0_1"} \subseteq
            {call.episode_items[i].data_id : i \in 1..Len(call.episode_items)}
    /\ C_Sources(call.result) = << <<"0_0_1", "c">> >>

\* C1: the episodes of a series resolved for one player id by fetch_playlist
\* (parse_episode_items for the voice, then extract_episodes for the player)
\* are numbered 1, 2, 3, ... in DOM order without gaps.
C1_Sequential ==
    (~anime.is_movie) =>
        \A i \in 1..Len(anime.episodes) : anime.episodes[i].number = i

\* C8: a non-empty list of parsed playlist items comes with at least one
\* voice; otherwise the resolution has failed: no episode is resolved and
\* neither URL extraction nor download is started.
C8_VoicesOrFailed ==
    Len(all_items) > 0 =>
        \/ Len(anime.voices) > 0
        \/ /\ Len(anime.episodes) = 0
           /\ pc \notin {"select_voice", "select_player", "fetch_episodes",
                         "extract", "download"}
           /\ stats = NoStats

\* a playlist page with items and with videos that has no voice: the run
\* has ended with nothing resolved
C8_Witness ==
    /\ Len(all_items) > 0
    /\ all_items = parse_voice_items(html)
    /\ Len(html.videos) > 0
    /\ Len(anime.voices) = 0
    /\ pc = "done"

\* ============================================================ extraction
\* Texts of the player page (file values, URLs) are sequences of code
\* points; bytes are sequences of 0..255.

MaxUrlLen == 3
MaxRawLen == 2

\* ------------------------------------------------------------- base64
\* the character of the 6-bit value n (A-Z, a-z, 0-9, +, /)
B64Char(n) ==
    IF n < 26 THEN 65 + n
    ELSE IF n < 52 THEN 97 + (n - 26)
    ELSE IF n < 62 THEN 48 + (n - 52)
    ELSE IF n = 62 THEN 43 ELSE 47

\* the 6-bit value of the character c, 64 for a character outside the alphabet
B64Val(c) ==
    IF c \in 65..90 THEN c - 65
    ELSE IF c \in 97..122 THEN c - 71
    ELSE IF c \in 48..57 THEN c + 4
    ELSE IF c = 43 THEN 62
    ELSE IF c = 47 THEN 63 ELSE 64

\* base64.b64encode: three bytes give four characters, the rest is padded
\* with "="
RECURSIVE b64encode(_)
b64encode(b) ==
    IF Len(b) = 0 THEN <<>>
    ELSE IF Len(b) = 1
    THEN <<B64Char(b[1] \div 4), B64Char((b[1] % 4) * 16), 61, 61>>
    ELSE IF Len(b) = 2
    THEN <<B64Char(b[1] \div 4), B64Char((b[1] % 4) * 16 + b[2] \div 16),
           B64Char((b[2] % 16) * 4), 61>>
    ELSE <<B64Char(b[1] \div 4), B64Char((b[1] % 4) * 16 + b[2] \div 16),
           B64Char((b[2] % 16) * 4 + b[3] \div 64), B64Char(b[3] % 64)>>
         \o b64encode(SubSeq(b, 4, Len(b)))

\* binascii.a2b_base64 without strict mode, from character i on: characters
\* outside the alphabet are skipped, "=" ends the data once the quad has two
\* characters and is complete with the padding, and data that ends inside a
\* quad is an error
RECURSIVE a2b_base64(_, _, _, _, _, _)
a2b_base64(s, i, quad_pos, leftchar, pads, out) ==
    IF i > Len(s)
    THEN [ok |-> quad_pos = 0, bytes |-> out]
    ELSE IF s[i] = 61
    THEN IF quad_pos >= 2 /\ quad_pos + pads + 1 >= 4
         THEN [ok |-> TRUE, bytes |-> out]
         ELSE a2b_base64(s, i + 1, quad_pos, leftchar,
                         IF quad_pos >= 2 THEN pads + 1 ELSE pads, out)
    ELSE LET v == B64Val(s[i])
         IN IF v >= 64
            THEN a2b_base64(s, i + 1, quad_pos, leftchar, pads, out)
            ELSE IF quad_pos = 0
            THEN a2b_base64(s, i + 1, 1, v, 0, out)
            ELSE IF quad_pos = 1
            THEN a2b_base64(s, i + 1, 2, v % 16, 0,
                            Append(out, leftchar * 4 + v \div 16))
            ELSE IF quad_pos = 2
            THEN a2b_base64(s, i + 1, 3, v % 4, 0,
                            Append(out, leftchar * 16 + v \div 4))
            ELSE a2b_base64(s, i + 1, 0, 0, 0, Append(out, leftchar * 64 + v))

\* base64.b64decode of a str: a character outside ASCII is a ValueError
b64decode(s) ==
    IF \E i \in 1..Len(s) : s[i] >= 128
    THEN [ok |-> FALSE, bytes |-> <<>>]
    ELSE a2b_base64(s, 1, 0, 0, 0, <<>>)

\* -------------------------------------------------------------- UTF-8
\* str.encode() of one code point
Utf8Char(c) ==
    IF c < 128 THEN <<c>>
    ELSE IF c < 2048 THEN <<192 + c \div 64, 128 + (c % 64)>>
    ELSE IF c < 65536
    THEN <<224 + c \div 4096, 128 + ((c \div 64) % 64), 128 + (c % 64)>>
    ELSE <<240 + c \div 262144, 128 + ((c \div 4096) % 64),
           128 + ((c \div 64) % 64), 128 + (c % 64)>>

\* str.encode()
RECURSIVE Utf8Encode(_)
Utf8Encode(t) ==
    IF Len(t) = 0 THEN <<>> ELSE Utf8Char(t[1]) \o Utf8Encode(Tail(t))

\* b[i] is a continuation byte
IsCont(b, i) == i <= Len(b) /\ b[i] \in 128..191

\* bytes.decode("utf-8") from byte i on: ok is FALSE for a UnicodeDecodeError
RECURSIVE Utf8DecodeFrom(_, _)
Utf8DecodeFrom(b, i) ==
    IF i > Len(b) THEN [ok |-> TRUE, text |-> <<>>]
    ELSE LET b1 == b[i]
             n == IF b1 < 128 THEN 1
                  ELSE IF b1 \in 194..223 THEN 2
                  ELSE IF b1 \in 224..239 THEN 3
                  ELSE IF b1 \in 240..244 THEN 4 ELSE 0
             c == IF n = 1 THEN b1
                  ELSE IF n = 2 THEN (b1 - 192) * 64 + (b[i + 1] - 128)
                  ELSE IF n = 3
                  THEN (b1 - 224) * 4096 + (b[i + 1] - 128) * 64 + (b[i + 2] - 128)
                  ELSE (b1 - 240) * 262144 + (b[i + 1] - 128) * 4096
                       + (b[i + 2] - 128) * 64 + (b[i + 3] - 128)
             well == /\ n > 0
                     /\ \A k \in 1..(n - 1) : IsCont(b, i + k)
                     /\ n = 3 => c >= 2048 /\ c \notin 55296..57343
                     /\ n = 4 => c \in 65536..1114111
         IN IF ~well THEN [ok |-> FALSE, text |-> <<>>]
            ELSE LET rest == Utf8DecodeFrom(b, i + n)
                 IN [ok |-> rest.ok,
                     text |-> IF rest.ok THEN <<c>> \o rest.text ELSE <<>>]

\* decoded[::-1]
Reverse(t) == [i \in 1..Len(t) |-> t[Len(t) + 1 - i]]

\* ------------------------------------------------------ BaseVideoExtractor
\* what extract_url and the chain return: a URL, None, or a raised error
UrlResult(url) == [kind |-> "url", url |-> url]
NoneResult == [kind |-> "none", url |-> <<>>]
Raised == [kind |-> "raised", url |-> <<>>]

\* `if url:` of the chain
Truthy(r) == r.kind = "url" /\ r.url # <<>>

HTTPS == <<104, 116, 116, 112, 115, 58>>          \* "https:"

\* url.rstrip("/")
RECURSIVE RStripSlash(_)
RStripSlash(t) ==
    IF Len(t) > 0 /\ t[Len(t)] = 47
    THEN RStripSlash(SubSeq(t, 1, Len(t) - 1)) ELSE t

\* variant: the trailing slashes are removed, no protocol is added
normalize_url_no_protocol(url) == RStripSlash(url)

\* variant: the protocol is added, the trailing slashes stay
normalize_url_keep_slash(url) ==
    IF StartsWith(url, <<47, 47>>) THEN HTTPS \o url ELSE url

\* normalize_url: "https:" before a leading "//", trailing slashes removed
normalize_url(url) ==
    IF url = <<>> THEN url
    ELSE RStripSlash(IF StartsWith(url, <<47, 47>>) THEN HTTPS \o url ELSE url)

\* ------------------------------------------------------------ player page
\* A player page is described by what the extractors' patterns see in it.
\*   tortuga:  "absent"  the word TortugaCore does not occur;
\*             "token"   it occurs, but not as new TortugaCore({ ... file: "..."
\*             "ctor"    new TortugaCore({ file: "<t_raw>" })
\*   playerjs: "absent"  the word Playerjs does not occur;
\*             "token"   it occurs, but not as Playerjs({...});
\*             "config"  Playerjs({...}) whose object is written in p_style
\*                       ("json": keys and strings in double quotes, "js":
\*                       the key without quotes) and has no file property
\*                       (p_file = "absent"), file: "<p_raw>" ("string") or
\*                       a number other than 0 as file value ("number")
\* t_raw and p_raw are the texts between the opening and the closing quote;
\* they may hold a quote character themselves.

\* group 1 of file\s*:\s*["']([^"']+)["'] on file: "raw": the characters of
\* raw before its first quote character; the pattern does not match when
\* there is none
Capture(raw) ==
    LET q == {i \in 1..Len(raw) : raw[i] \in {34, 39}}
    IN IF q = {} THEN raw
       ELSE SubSeq(raw, 1, (CHOOSE i \in q : \A j \in q : i <= j) - 1)

\* --------------------------------------------------- TortugaCoreExtractor
tortuga_can_handle(page) == page.tortuga # "absent"

tortuga_extract_url(page) ==
    IF page.tortuga # "ctor" \/ Capture(page.t_raw) = <<>> THEN NoneResult
    ELSE LET decoded_bytes == b64decode(Capture(page.t_raw))
         IN IF ~decoded_bytes.ok THEN NoneResult
            ELSE LET decoded == Utf8DecodeFrom(decoded_bytes.bytes, 1)
                 IN IF ~decoded.ok THEN NoneResult
                    ELSE UrlResult(normalize_url(Reverse(decoded.text)))

\* ------------------------------------------------------ PlayerJSExtractor
playerjs_can_handle(page) == page.playerjs # "absent"

playerjs_extract_url(page) ==
    IF page.playerjs # "config" THEN NoneResult
    ELSE IF page.p_file = "string" /\ Capture(page.p_raw) # <<>>
    THEN UrlResult(normalize_url(Capture(page.p_raw)))       \* regex first
    ELSE IF page.p_style # "json" THEN NoneResult            \* JSONDecodeError
    ELSE IF page.p_file = "absent" THEN NoneResult
    ELSE IF page.p_file = "number" THEN Raised   \* normalize_url of an int
    ELSE IF page.p_raw = <<>> THEN NoneResult
    ELSE UrlResult(normalize_url(page.p_raw))

\* --------------------------------------------------------- ExtractorChain
\* create_extractor: the newer player first
Extractors == <<"TortugaCoreExtractor", "PlayerJSExtractor">>

can_handle(extractor, page) ==
    IF extractor = "TortugaCoreExtractor" THEN tortuga_can_handle(page)
    ELSE playerjs_can_handle(page)

extract_url(extractor, page) ==
    IF extractor = "TortugaCoreExtractor" THEN tortuga_extract_url(page)
    ELSE playerjs_extract_url(page)

\* ExtractorChain.extract, from extractor i on
RECURSIVE extract_from(_, _, _)
extract_from(extractors, i, page) ==
    IF i > Len(extractors) THEN NoneResult
    ELSE IF ~can_handle(extractors[i], page)
    THEN extract_from(extractors, i + 1, page)
    ELSE LET url == extract_url(extractors[i], page)
         IN IF url.kind = "raised" THEN Raised
            ELSE IF Truthy(url) THEN url
            ELSE extract_from(extractors, i + 1, page)

extract(extractors, page) == extract_from(extractors, 1, page)

\* M3U8Extractor._extract_from_html, from extractor i on
RECURSIVE extract_from_html_from(_, _, _)
extract_from_html_from(extractors, i, page) ==
    IF i > Len(extractors) THEN NoneResult
    ELSE IF ~can_handle(extractors[i], page)
    THEN extract_from_html_from(extractors, i + 1, page)
    ELSE LET url == extract_url(extractors[i], page)
         IN IF url.kind = "raised" THEN Raised
            ELSE IF Truthy(url) THEN url
            ELSE extract_from_html_from(extractors, i + 1, page)

extract_from_html(extractors, page) == extract_from_html_from(extractors, 1, page)

\* ------------------------------------------------------- the player pages
\* the characters of the URLs: "/", "a" and a Cyrillic letter of two bytes
UrlChars == {47, 97, 1089}
Urls == SeqsUpTo(UrlChars, MaxUrlLen)

\* the file value that hides url: base64 of the reversed url
tortuga_encode(url) == b64encode(Utf8Encode(Reverse(url)))

\* file values that hide no URL: "a" (one character of a quad), "/w=="
\* (the byte 255), "!!!" (no character of the alphabet), "YQ'x" (a quote
\* inside), a Cyrillic letter, and the empty value
BrokenRaws ==
    { <<97>>, <<47, 119, 61, 61>>, <<33, 33, 33>>, <<89, 81, 39, 120>>,
      <<1089>>, <<>> }

TortugaRaws == {tortuga_encode(url) : url \in Urls} \cup BrokenRaws

\* the characters of a PlayerJS file value: "/", "a" and the apostrophe
RawChars == {47, 97, 39}
PlayerRaws == SeqsUpTo(RawChars, MaxRawLen)

NoPlayerPage ==
    [tortuga |-> "absent", t_raw |-> <<>>,
     playerjs |-> "absent", p_style |-> "json", p_file |-> "absent", p_raw |-> <<>>]

TortugaParts ==
    { [tortuga |-> k, t_raw |-> <<>>] : k \in {"absent", "token"} }
    \cup { [tortuga |-> "ctor", t_raw |-> raw] : raw \in TortugaRaws }

PlayerJSParts ==
    { [playerjs |-> k, p_style |-> "json", p_file |-> "absent", p_raw |-> <<>>] :
        k \in {"absent", "token"} }
    \cup { [playerjs |-> "config", p_style |-> st, p_file |-> f, p_raw |-> <<>>] :
            st \in {"json", "js"}, f \in {"absent", "number"} }
    \cup { [playerjs |-> "config", p_style |-> st, p_file |-> "string", p_raw |-> raw] :
            st \in {"json", "js"}, raw \in PlayerRaws }

PlayerPages ==
    { [tortuga |-> t.tortuga, t_raw |-> t.t_raw, playerjs |-> p.playerjs,
       p_style |-> p.p_style, p_file |-> p.p_file, p_raw |-> p.p_raw] :
        t \in TortugaParts, p \in PlayerJSParts }

\* conftest.mock_tortuga_html
mock_tortuga_html(url) ==
    [NoPlayerPage EXCEPT !.tortuga = "ctor", !.t_raw = tortuga_encode(url)]

\* ExtractorChain.extract on a player page
CallChainExtract ==
    /\ call = NoCall
    /\ \E page \in PlayerPages :
         call' = [op |-> "chain_extract", page |-> page,
                  result |-> extract(Extractors, page)]
    /\ UNCHANGED <<html, pc, anime, all_items, sel, stats>>

\* M3U8Extractor._extract_from_html on a player page
CallExtractFromHtml ==
    /\ call = NoCall
    /\ \E page \in PlayerPages :
         call' = [op |-> "extract_from_html", page |-> page,
                  result |-> extract_from_html(Extractors, page)]
    /\ UNCHANGED <<html, pc, anime, all_items, sel, stats>>

\* TortugaCoreExtractor.extract_url on the page that hides url
CallTortugaRoundTrip ==
    /\ call = NoCall
    /\ \E url \in Urls :
         call' = [op |-> "tortuga_round_trip", url |-> url,
                  page |-> mock_tortuga_html(url),
                  result |-> tortuga_extract_url(mock_tortuga_html(url))]
    /\ UNCHANGED <<html, pc, anime, all_items, sel, stats>>

\* the characters of a TortugaCore file value: "Y", "Q", "w", "=", "!" and
\* a Cyrillic letter
MaxB64Len == 5
B64Chars == {89, 81, 119, 61, 33, 1089}

\* pages with TortugaCore only: without the word, without the file pattern,
\* and with every file value
TortugaPages ==
    { [NoPlayerPage EXCEPT !.tortuga = k] : k \in {"absent", "token"} }
    \cup { [NoPlayerPage EXCEPT !.tortuga = "ctor", !.t_raw = raw] :
            raw \in SeqsUpTo(B64Chars, MaxB64Len) }

\* TortugaCoreExtractor.extract_url on a page
CallTortugaExtract ==
    /\ call = NoCall
    /\ \E page \in TortugaPages :
         call' = [op |-> "tortuga_extract_url", page |-> page,
                  result |-> tortuga_extract_url(page)]
    /\ UNCHANGED <<html, pc, anime, all_items, sel, stats>>

\* pages with a Playerjs config only; p_title tells whether the config has,
\* before file, a title property and whether its string value holds an
\* apostrophe ("It's working"): no pattern of the extractor looks at it
PlayerJSPages ==
    { [tortuga |-> "absent", t_raw |-> <<>>, playerjs |-> p.playerjs,
       p_style |-> p.p_style, p_file |-> p.p_file, p_raw |-> p.p_raw,
       p_title |-> title] :
        p \in PlayerJSParts, title \in {"absent", "plain", "apostrophe"} }

\* PlayerJSExtractor.extract_url on a page
CallPlayerJSExtract ==
    /\ call = NoCall
    /\ \E page \in PlayerJSPages :
         call' = [op |-> "playerjs_extract_url", page |-> page,
                  result |-> playerjs_extract_url(page)]
    /\ UNCHANGED <<html, pc, anime, all_items, sel, stats>>

\* the URLs given to normalize_url
MaxNormLen == 4
NormUrls == SeqsUpTo(UrlChars, MaxNormLen)

\* normalize_url on a URL, and on its own result
CallNormalize ==
    /\ call = NoCall
    /\ \E url \in NormUrls :
         call' = [op |-> "normalize_url", url |-> url,
                  result |-> normalize_url(url),
                  twice |-> normalize_url(normalize_url(url))]
    /\ UNCHANGED <<html, pc, anime, all_items, sel, stats>>

\* -------------------------------------------------------- QualitySelector
\* the number of digits of s from place i on
DigitRun(s, i) ==
    CHOOSE n \in 0..(Len(s) + 1 - i) :
        /\ \A k \in 0..(n - 1) : s[i + k] \in 48..57
        /\ i + n > Len(s) \/ s[i + n] \notin 48..57

\* the number of characters of s from place i on that are no comma and no
\* bracket
UrlRun(s, i) ==
    CHOOSE n \in 0..(Len(s) + 1 - i) :
        /\ \A k \in 0..(n - 1) : s[i + k] \notin {44, 91, 93}
        /\ i + n > Len(s) \/ s[i + n] \in {44, 91, 93}

\* int(digits)
RECURSIVE int(_)
int(digits) ==
    IF Len(digits) = 0 THEN 0
    ELSE 10 * int(SubSeq(digits, 1, Len(digits) - 1)) + (digits[Len(digits)] - 48)

\* \[(\d+)p\]([^,\[\]]+) matched at place i of s
quality_match(s, i) ==
    LET d == DigitRun(s, i + 1)
        u == UrlRun(s, i + d + 3)
    IN IF /\ s[i] = 91
          /\ d >= 1
          /\ i + d + 2 <= Len(s)
          /\ s[i + d + 1] = 112
          /\ s[i + d + 2] = 93
          /\ u >= 1
       THEN [ok |-> TRUE, quality |-> SubSeq(s, i + 1, i + d),
             url |-> SubSeq(s, i + d + 3, i + d + 2 + u), end |-> i + d + 3 + u]
       ELSE [ok |-> FALSE, quality |-> <<>>, url |-> <<>>, end |-> i + 1]

\* re.findall(quality_pattern, s) from place i on: the matches from left to
\* right, none overlapping another
RECURSIVE findall(_, _)
findall(s, i) ==
    IF i > Len(s) THEN <<>>
    ELSE LET m == quality_match(s, i)
         IN IF m.ok THEN <<[quality |-> m.quality, url |-> m.url]>> \o findall(s, m.end)
            ELSE findall(s, i + 1)

\* variant: the lowest quality comes first
sorted_first_ascending(matches) ==
    CHOOSE i \in 1..Len(matches) :
        \A j \in 1..Len(matches) :
            \/ int(matches[i].quality) < int(matches[j].quality)
            \/ int(matches[i].quality) = int(matches[j].quality) /\ i <= j

\* the place in matches of sorted(matches, key=int(quality), reverse=True)[0]:
\* the sort is stable, so of equal qualities the first one stays first
sorted_first(matches) ==
    CHOOSE i \in 1..Len(matches) :
        \A j \in 1..Len(matches) :
            \/ int(matches[i].quality) > int(matches[j].quality)
            \/ int(matches[i].quality) = int(matches[j].quality) /\ i <= j

select_best_quality(file_value) ==
    IF file_value = <<>> THEN file_value
    ELSE IF 91 \notin Range(file_value) \/ 93 \notin Range(file_value) THEN file_value
    ELSE LET matches == findall(file_value, 1)
         IN IF matches = <<>> THEN file_value
            ELSE RStripSlash(matches[sorted_first(matches)].url)

\* the pieces file values are made of: "[1p]a", "[2p]b", "[10p]c/", "[2p]d",
\* "[1p]" (no URL), "[p]a" (no number), ",", "[", "]", "a" and "/"
MaxPieces == 3
Pieces ==
    { <<91, 49, 112, 93, 97>>, <<91, 50, 112, 93, 98>>,
      <<91, 49, 48, 112, 93, 99, 47>>, <<91, 50, 112, 93, 100>>,
      <<91, 49, 112, 93>>, <<91, 112, 93, 97>>,
      <<44>>, <<91>>, <<93>>, <<97>>, <<47>> }

\* the pieces of ps, written one after the other
RECURSIVE Concat(_)
Concat(ps) == IF Len(ps) = 0 THEN <<>> ELSE ps[1] \o Concat(Tail(ps))

FileValues == {Concat(ps) : ps \in SeqsUpTo(Pieces, MaxPieces)}

\* QualitySelector.select_best_quality on a file value
CallSelectBestQuality ==
    /\ call = NoCall
    /\ \E file_value \in FileValues :
         call' = [op |-> "select_best_quality", file_value |-> file_value,
                  result |-> select_best_quality(file_value)]
    /\ UNCHANGED <<html, pc, anime, all_items, sel, stats>>

\* the quality selector, called on every file value
SpecQuality == InitIdle /\ [][CallSelectBestQuality]_vars

\* ---------------------------------------------------------- M3U8Extractor
\* What the request for an episode's player page brings: a transport error,
\* a status that is no success, a body of less than 100 characters, or a
\* page; "no_data_file" stands for an episode that has no data_file, for
\* which no request is made.
\* The pages: no player; TortugaCore with the value "YQ", which is no
\* base64; TortugaCore hiding "a"; a Playerjs config with a number as file;
\* a Playerjs config with the file value "[1p]a,[2p]b/".
Responses ==
    { [kind |-> k, page |-> NoPlayerPage] :
        k \in {"transport_error", "status_error", "short", "no_data_file", "page"} }
    \cup { [kind |-> "page", page |-> p] : p \in
            { [NoPlayerPage EXCEPT !.tortuga = "ctor", !.t_raw = <<89, 81>>],
              mock_tortuga_html(<<97>>),
              [NoPlayerPage EXCEPT !.playerjs = "config", !.p_file = "number"],
              [NoPlayerPage EXCEPT !.playerjs = "config", !.p_file = "string",
                    !.p_raw = <<91, 49, 112, 93, 97, 44, 91, 50, 112, 93, 98, 47>>] } }

\* variant: the extracted value is returned without the quality selection
extract_m3u8_url_as_extracted(episode, response) ==
    IF episode.data_file = "" THEN NoneResult
    ELSE IF response.kind # "page" THEN NoneResult
    ELSE LET m3u8_url == extract_from_html(Extractors, response.page)
         IN IF ~Truthy(m3u8_url) THEN NoneResult ELSE m3u8_url

\* extract_m3u8_url: None without data_file, None when the request fails or
\* the body is short, None when the chain extracts nothing or anything
\* raises, else the best quality of what the chain extracted
extract_m3u8_url(episode, response) ==
    IF episode.data_file = "" THEN NoneResult
    ELSE IF response.kind \in {"transport_error", "status_error"} THEN NoneResult
    ELSE IF response.kind = "short" THEN NoneResult
    ELSE LET m3u8_url == extract_from_html(Extractors, response.page)
         IN IF m3u8_url.kind = "raised" THEN NoneResult      \* except Exception
            ELSE IF ~Truthy(m3u8_url) THEN NoneResult
            ELSE UrlResult(select_best_quality(m3u8_url.url))

\* the episodes given to extract_all_m3u8_urls, one for each response; in
\* the batch m3u8_url holds what extract_m3u8_url returns, NoneResult for
\* None
MaxBatch == 3
BatchFiles == <<"a", "b", "c", "d", "e">>
BatchEpisode(k, response) ==
    [Episode(k, "0_0", IF response.kind = "no_data_file" THEN "" ELSE BatchFiles[k])
        EXCEPT !.m3u8_url = NoneResult]

\* extract_all_m3u8_urls is called with a list of episodes
BatchStart ==
    /\ call = NoCall
    /\ \E n \in 0..MaxBatch : \E responses \in [1..n -> Responses] :
         LET episodes == [k \in 1..n |-> BatchEpisode(k, responses[k])]
         IN call' = [op |-> "extract_all_m3u8_urls", given |-> episodes,
                     episodes |-> episodes, responses |-> responses, i |-> 1]
    /\ UNCHANGED <<html, pc, anime, all_items, sel, stats>>

\* one turn of the loop of extract_all_m3u8_urls: episode i gets its URL
BatchStep ==
    /\ call.op = "extract_all_m3u8_urls"
    /\ call.i <= Len(call.episodes)
    /\ call' = [call EXCEPT
                    !.episodes[call.i].m3u8_url =
                        extract_m3u8_url(call.episodes[call.i], call.responses[call.i]),
                    !.i = call.i + 1]
    /\ UNCHANGED <<html, pc, anime, all_items, sel, stats>>

\* extract_all_m3u8_urls on every list of episodes and responses
SpecBatch == InitIdle /\ [][BatchStart \/ BatchStep]_vars

\* the extractors, called on every player page
SpecExtract ==
    InitIdle /\ [][CallChainExtract \/ CallExtractFromHtml \/ CallTortugaRoundTrip
                   \/ CallTortugaExtract \/ CallPlayerJSExtract
                   \/ CallNormalize]_vars

\* what each extractor gives the chain: None when it does not recognize the
\* page
C_Tortuga ==
    IF call.page.tortuga = "absent" THEN NoneResult
    ELSE tortuga_extract_url(call.page)

C_PlayerJS ==
    IF call.page.playerjs = "absent" THEN NoneResult
    ELSE playerjs_extract_url(call.page)

\* C9: the chain (ExtractorChain.extract and M3U8Extractor._extract_from_html)
\* returns the non-empty URL of the TortugaCore extractor if there is one,
\* else the non-empty URL of the PlayerJS extractor if there is one, else
\* None; it never raises.
C9_ChainOrder ==
    call.op \in {"chain_extract", "extract_from_html"} =>
        /\ call.result.kind # "raised"
        /\ call.result = IF Truthy(C_Tortuga) THEN C_Tortuga
                         ELSE IF Truthy(C_PlayerJS) THEN C_PlayerJS
                         ELSE NoneResult

\* C10 as stated: extract_url on the page that hides a (non-empty) url
\* returns url itself.
C10_AsStated ==
    (call.op = "tortuga_round_trip" /\ call.url # <<>>) =>
        call.result = UrlResult(call.url)

\* C10: extract_url on the page that hides url returns None for the empty
\* url, and otherwise url with "https:" put before a leading "//" and with
\* the trailing slashes removed; this is url itself when url does not start
\* with "//" and does not end with "/".
C10_RoundTrip ==
    call.op = "tortuga_round_trip" =>
        IF call.url = <<>> THEN call.result = NoneResult
        ELSE LET u == call.url
                 relative == Len(u) >= 2 /\ u[1] = 47 /\ u[2] = 47
                 v == IF relative THEN <<104, 116, 116, 112, 115, 58>> \o u ELSE u
                 r == call.result.url
             IN /\ call.result.kind = "url"
                /\ Len(r) <= Len(v)
                /\ r = SubSeq(v, 1, Len(r))
                /\ \A i \in (Len(r) + 1)..Len(v) : v[i] = 47
                /\ r # <<>> => r[Len(r)] # 47
                /\ (~relative /\ u[Len(u)] # 47) => r = u

\* the url "a/c" with a Cyrillic last letter, hidden as "0YEvYQ==", comes
\* back as it is
C10_Witness ==
    /\ call.op = "tortuga_round_trip"
    /\ call.url = <<97, 47, 1089>>
    /\ call.page.t_raw = <<48, 89, 69, 118, 89, 81, 61, 61>>
    /\ call.result = UrlResult(<<97, 47, 1089>>)

\* s is base64 as RFC 4648 writes it: quads of characters of the alphabet,
\* the last quad possibly ending in "=" or "=="
C_ValidBase64(s) ==
    /\ Len(s) % 4 = 0
    /\ \A i \in 1..Len(s) :
        \/ s[i] \in (65..90) \cup (97..122) \cup (48..57) \cup {43, 47}
        \/ s[i] = 61 /\ i >= Len(s) - 1 /\ (i = Len(s) - 1 => s[Len(s)] = 61)

\* C11: TortugaCoreExtractor.extract_url never raises; it returns None for a
\* page without the file pattern and for every captured file value that is
\* not valid base64 or does not decode to UTF-8 text.
C11_UndecodableNone ==
    call.op = "tortuga_extract_url" =>
        LET captured == Capture(call.page.t_raw)
        IN /\ call.result.kind # "raised"
           /\ (call.page.tortuga # "ctor" \/ captured = <<>>) =>
                    call.result = NoneResult
           /\ (call.page.tortuga = "ctor" /\ captured # <<>>
                    /\ ~C_ValidBase64(captured)) =>
                    call.result = NoneResult
           /\ (call.page.tortuga = "ctor" /\ captured # <<>>
                    /\ C_ValidBase64(captured)
                    /\ ~Utf8DecodeFrom(b64decode(captured).bytes, 1).ok) =>
                    call.result = NoneResult

\* the config of the call has an apostrophe in a string value
C_HasApostrophe ==
    \/ call.page.p_title = "apostrophe"
    \/ \E i \in 1..Len(call.page.p_raw) : call.page.p_raw[i] = 39

\* C12: for a Playerjs config with an apostrophe in a string value (the file
\* value included), extract_url returns the complete (normalized) file
\* value: not None and not a part of it.  (Stated for file values that begin
\* with another character than the apostrophe.)
C12_ApostropheComplete ==
    (/\ call.op = "playerjs_extract_url"
     /\ call.page.playerjs = "config"
     /\ call.page.p_file = "string"
     /\ call.page.p_raw # <<>> /\ call.page.p_raw[1] # 39
     /\ C_HasApostrophe) =>
        call.result = UrlResult(normalize_url(call.page.p_raw))

\* u begins with "//"
C_Relative(u) == Len(u) >= 2 /\ u[1] = 47 /\ u[2] = 47

\* r is v without its trailing slashes
C_Stripped(r, v) ==
    /\ Len(r) <= Len(v)
    /\ r = SubSeq(v, 1, Len(r))
    /\ \A i \in (Len(r) + 1)..Len(v) : v[i] = 47
    /\ r # <<>> => r[Len(r)] # 47

\* C13: normalize_url puts "https:" before a leading "//", removes all
\* trailing slashes, leaves every other URL as it is, and gives the same
\* result when applied twice; the URLs the two extractors return are of that
\* form.
C13_Normalize ==
    /\ call.op = "normalize_url" =>
        LET u == call.url
            v == IF C_Relative(u) THEN <<104, 116, 116, 112, 115, 58>> \o u ELSE u
        IN /\ C_Stripped(call.result, v)
           /\ (~C_Relative(u) /\ (u = <<>> \/ u[Len(u)] # 47)) => call.result = u
           /\ call.twice = call.result
    /\ (call.op \in {"tortuga_extract_url", "playerjs_extract_url"}
            /\ call.result.kind = "url") =>
        /\ ~C_Relative(call.result.url)
        /\ C_Stripped(call.result.url, call.result.url)

\* "//a/" becomes "https://a", and stays so when normalized again
C13_Witness ==
    /\ call.op = "normalize_url"
    /\ call.url = <<47, 47, 97, 47>>
    /\ call.result = <<104, 116, 116, 112, 115, 58, 47, 47, 97>>
    /\ call.twice = call.result

\* C14: select_best_quality returns its input when the input is empty, has
\* no "[" or no "]", or has no [NNNp]url segment; otherwise it returns,
\* without trailing slashes, the URL of the segment with the greatest
\* numeric quality, wherever that segment stands (of several segments with
\* the greatest quality, the first).
C14_BestQuality ==
    call.op = "select_best_quality" =>
        LET v == call.file_value
            m == findall(v, 1)
            multi == /\ \E i \in 1..Len(v) : v[i] = 91
                     /\ \E i \in 1..Len(v) : v[i] = 93
                     /\ Len(m) > 0
        IN IF ~multi THEN call.result = v
           ELSE \E i \in 1..Len(m) :
                    /\ \A j \in 1..Len(m) : int(m[j].quality) <= int(m[i].quality)
                    /\ \A j \in 1..(i - 1) : int(m[j].quality) < int(m[i].quality)
                    /\ C_Stripped(call.result, m[i].url)

\* "[2p]b,[10p]c/" gives "c": 10 is greater than 2, and the slash is removed
C14_Witness ==
    /\ call.op = "select_best_quality"
    /\ call.file_value = <<91, 50, 112, 93, 98, 44, 91, 49, 48, 112, 93, 99, 47>>
    /\ call.result = <<99>>

\* what episode k of the batch is to get: nothing after a failure, else the
\* best quality of what the chain extracts from the episode's own page
C_StreamUrl(k) ==
    LET r == call.responses[k]
        extracted == extract_from_html(Extractors, r.page)
    IN IF r.kind # "page" THEN NoneResult
       ELSE IF extracted.kind # "url" \/ extracted.url = <<>> THEN NoneResult
       ELSE UrlResult(select_best_quality(extracted.url))

C_EpisodesOfSelection ==
    playlist_parsed(NoAnime, html, sel.voice_id, sel.player_id).anime.episodes

\* C16: the fetch_playlist call of step 4, made for the selection of the
\* run, leaves in anime.episodes exactly the episodes of that selection;
\* the episodes resolved before (for the first voice) are replaced.
C16_Replaced ==
    [][(pc = "fetch_episodes" /\ pc' # "fetch_episodes" /\ html.kind = "playlist")
            => anime'.episodes = C_EpisodesOfSelection]_vars

\* C17: when the playlist request of step 4 fails, the run finds no episodes
\* and ends: no URL is extracted and nothing is downloaded.
C17_FailedIsNoData ==
    (call.op = "ajax_playlist_request" /\ call.fails) =>
        /\ pc = "done"
        /\ stats = NoStats
        /\ \A i \in 1..Len(anime.episodes) : anime.episodes[i].m3u8_url = None

\* ------------------------------------------- resolving episodes twice
\* the selections tried: a voice id or none, a player id or none
ResolveVoiceIds == {None, "0_0", "0_0_0", "0_0_1"}

ResolvePlayerIds == {None, "0_0_0", "0_0_1"}

\* fetch_playlist(anime, voice_id, player_id) on a scraper that has fetched
\* nothing yet; the site serves the playlist page
ResolveFirst ==
    /\ pc = "idle" /\ call = NoCall
    /\ \E page \in {p \in Pages : p.kind = "playlist"},
          voice_id \in ResolveVoiceIds, player_id \in ResolvePlayerIds :
        LET r == fetch_playlist(anime, all_items, page, voice_id, player_id, FALSE)
        IN /\ html' = page
           /\ anime' = r.anime
           /\ all_items' = r.all_items
           /\ call' = [op |-> "resolve", voice_id |-> voice_id,
                       player_id |-> player_id, calls |-> 1,
                       first |-> r.anime.episodes, second |-> <<>>]
    /\ pc' = "resolved"
    /\ UNCHANGED <<sel, stats>>

\* the same call again, on the same scraper and anime, the site serving
\* the same page
ResolveAgain ==
    /\ pc = "resolved" /\ call.calls = 1
    /\ LET r == fetch_playlist(anime, all_items, html, call.voice_id,
                               call.player_id, FALSE)
       IN /\ anime' = r.anime
          /\ all_items' = r.all_items
          /\ call' = [call EXCEPT !.calls = 2, !.second = r.anime.episodes]
    /\ UNCHANGED <<html, pc, sel, stats>>

SpecResolve == InitIdle /\ [][ResolveFirst \/ ResolveAgain]_vars

\* ------------------------------------------------------------ C18
\* the run is past step 4: extraction or download is next or has acted
C_PastEpisodeCheck ==
    \/ pc \in {"extract", "download"}
    \/ stats # NoStats
    \/ \E i \in 1..Len(anime.episodes) : anime.episodes[i].m3u8_url # None

C_StreamUrls == [i \in 1..Len(anime.episodes) |-> anime.episodes[i].m3u8_url]

C_AllUnset == \A i \in 1..Len(anime.episodes) : C_StreamUrls[i] = None

\* C19: until the extraction stage every episode's m3u8_url is None; the
\* extraction stage acts once (the run never comes back to it); every other
\* step of the run, the steps after extraction included, leaves every
\* m3u8_url that is set as it is and sets none.
C19_AssignedOnce ==
    /\ [](pc \in {"start", "select_voice", "select_player",
                   "fetch_episodes", "extract"} => C_AllUnset)
    /\ [][pc = "extract" => pc' \in {"download", "done"}]_vars
    /\ [][(pc \in {"download", "done"}) =>
            (pc' # "extract" /\ C_StreamUrls' = C_StreamUrls)]_vars
    /\ [][pc # "extract" =>
            \A i \in 1..Len(anime'.episodes) :
                C_StreamUrls'[i] # None =>
                    (i <= Len(anime.episodes)
                        /\ anime'.episodes[i] = anime.episodes[i])]_vars

\* C19 witness: the download has acted (one episode failed) and the run has
\* ended with one episode holding the URL extraction gave it and another
\* left without one
C19_Witness ==
    /\ pc = "done" /\ stats.failed > 0
    /\ \E i, j \in 1..Len(anime.episodes) :
        /\ C_StreamUrls[i] = StreamUrl(anime.episodes[i])
        /\ C_StreamUrls[j] = None

\* ------------------------------------------------------------ C20
\* what EpisodeExtractor.extract_episodes gives for the episode items that
\* HTMLParser.parse_episode_items reads from the page held in html, for the
\* selection of the call and the content kind anime holds
C_Resolved ==
    extract_episodes(parse_episode_items(html, call.voice_id), call.voice_id,
                     call.player_id, anime.is_movie, parse_voice_items(html))

\* C20: the second of two resolutions with the same voice id and player id
\* over the same playlist page gives the list the first gave: the same
\* episodes in the same order, with the same ids, files and numbers; with a
\* voice id and a playlist that has items, both are what the resolver
\* computes from the page alone.
C20_SameTwice ==
    (call.op = "resolve" /\ call.calls = 2) =>
        /\ call.second = call.first
        /\ (call.voice_id # None /\ Len(all_items) > 0)
                => call.second = C_Resolved

\* C20 witness: the second resolution has returned two episodes, numbered
\* differently, for a voice and a player
C20_Witness ==
    /\ call.op = "resolve" /\ call.calls = 2
    /\ call.voice_id # None /\ call.player_id # None
    /\ Len(call.second) = 2
    /\ call.second[1].number # call.second[2].number

\* ------------------------------------------- aniloader.scraper (legacy)
\* the <li> of .playlists-videos as the legacy fetch_playlist reads them:
\* data-id, data-file and text
legacy_episode_items(page) ==
    [i \in 1..Len(page.videos) |->
        [data_id |-> page.videos[i].id, data_file |-> page.videos[i].file,
         text |-> page.videos[i].text]]

\* is_movie of the legacy fetch_playlist: a movie label, no series label and
\* no more distinct files than items
legacy_is_movie(page, items) ==
    /\ has_movie_label(get_episode_texts(page))
    /\ ~has_series_label(get_episode_texts(page))
    /\ ~(Cardinality(get_unique_episode_files(page)) > Len(items))

\* the voices of the legacy fetch_playlist
legacy_voices(items, is_movie) ==
    LET max_depth == get_max_depth(items)
        kept == IF all_have_player_keyword(items) THEN items
                ELSE IF is_movie
                THEN SelectSeq(items, LAMBDA item : movie_voice(item, max_depth))
                ELSE SelectSeq(items, LAMBDA item : ~series_skip(item, max_depth))
    IN [i \in 1..Len(kept) |-> Voice(kept[i])]

\* re.search(r"(\d+)", text): the first run of digits of the text
first_digits(text) ==
    LET at == {i \in 1..Len(text) : text[i] \in 48..57}
    IN IF at = {} THEN <<>>
       ELSE LET i == CHOOSE k \in at : \A j \in at : k <= j
            IN SubSeq(text, i, i + DigitRun(text, i) - 1)

\* the episode number of the legacy series branch: the first number of the
\* label, or len(episodes) + 1
legacy_episode_num(text, len_episodes) ==
    IF first_digits(text) # <<>> THEN int(first_digits(text))
    ELSE len_episodes + 1

\* the player id the legacy series branch filters by
legacy_player_id(episode_items, voice_id, player_id) ==
    LET has_direct_episodes ==
            \E i \in 1..Len(episode_items) : episode_items[i].data_id = voice_id
    IN IF has_direct_episodes
       THEN (IF Falsy(player_id) THEN voice_id ELSE player_id)
       ELSE IF Falsy(player_id) /\ ~Falsy(voice_id)
            THEN first_player_under(episode_items, voice_id)
       ELSE player_id

\* the episodes of the legacy fetch_playlist
legacy_episodes(episode_items, voice_id, player_id, is_movie, items) ==
    IF is_movie
    THEN extract_movie_episodes(episode_items,
                                IF Falsy(voice_id) THEN "" ELSE voice_id,
                                player_id, items)
    ELSE LET pid == legacy_player_id(episode_items, voice_id, player_id)
             kept == KeptPositions([i \in 1..Len(episode_items) |->
                        /\ episode_items[i].data_file # ""
                        /\ (Falsy(pid) \/ StartsWith(episode_items[i].data_id, pid))])
         IN [k \in 1..Len(kept) |->
                Episode(legacy_episode_num(episode_items[kept[k]].text, k - 1),
                        episode_items[kept[k]].data_id,
                        episode_items[kept[k]].data_file)]

\* the legacy fetch_playlist(anime, voice_id, player_id) when the request
\* succeeds: anime after it.  Unlike the refactored scraper it goes on when
\* the playlist has no items.
legacy_fetch_playlist(a, page, voice_id, player_id) ==
    IF page.kind = "iframe" THEN parse_embedded_iframe(a, TRUE)
    ELSE IF page.kind = "no_iframe" THEN parse_embedded_iframe(a, FALSE)
    ELSE LET items == parse_voice_items(page)
             is_movie == legacy_is_movie(page, items)
             voices == legacy_voices(items, is_movie)
             vid == IF Falsy(voice_id) /\ Len(voices) > 0 THEN voices[1].id
                    ELSE voice_id
         IN [a EXCEPT !.is_movie = is_movie, !.voices = voices,
                      !.episodes = legacy_episodes(legacy_episode_items(page), vid,
                                                   player_id, is_movie, items)]

\* the legacy get_available_players: the items one level below the voice
\* whose id starts with the voice id
legacy_get_available_players(items, voice_id) ==
    LET kept == SelectSeq(items, LAMBDA item :
                    /\ item.parts_count = Len(Split(voice_id)) + 1
                    /\ StartsWith(item.id, voice_id))
    IN [i \in 1..Len(kept) |-> Player(kept[i])]

\* ------------------------------------------------------------- main.py
\* One run of main() on a site page, with the --voice argument given or not.
\* call holds the arguments until the process ends and then how it ended;
\* all_items holds the items of the scraper's _playlist_html.
MaxMainVideos == 2

MainPages ==
    { [kind |-> "playlist", lists |-> l, videos |-> v] :
        l \in SubSeqsOf(NavLis), v \in SeqsUpTo(VideoLis, MaxMainVideos) }
    \cup { [kind |-> k, lists |-> <<>>, videos |-> <<>>] : k \in {"iframe", "no_iframe"} }

\* --voice: absent, an index, or a text that is no number
VoiceArgs == {None, "1", "x"}

MainStats == [total |-> 0, success |-> 0, failed |-> 0, skipped |-> 0]

InitMain ==
    /\ call = [op |-> "main", voice |-> None]
    /\ html \in MainPages
    /\ pc = "main_start"
    /\ anime = NoAnime
    /\ all_items = <<>>
    /\ sel = NoSel
    /\ stats = MainStats

\* sys.exit(status), reached from the place named by `by`
Exit(status, by) ==
    /\ pc' = "exited"
    /\ call' = [op |-> "sys.exit", status |-> status, by |-> by]

MainRunning ==
    pc \in {"main_start", "main_content", "main_voice", "main_player",
            "main_fetch", "main_extract", "main_download"}

\* the status the process ends with: that of sys.exit, or 0 when main returns
ExitStatus == IF pc = "exited" THEN call.status ELSE 0

\* parse_args and step 1: fetch_anime_metadata; a failed page request (or a
\* URL without news id) raises and `except Exception` exits with 1
MainFetchMetadata ==
    /\ pc = "main_start" /\ call.op = "main" /\ call.voice = None
    /\ \/ /\ Exit(1, "except Exception")
       \/ \E voice \in VoiceArgs :
            /\ call' = [op |-> "args", voice |-> voice]
            /\ pc' = "main_content"
    /\ UNCHANGED <<html, anime, all_items, sel, stats>>

\* step 2: fetch_playlist(anime); the request, or the page request of the
\* iframe fallback, may raise
MainFetchContent ==
    /\ pc = "main_content"
    /\ \/ /\ Exit(1, "except Exception")
          /\ UNCHANGED <<anime, all_items>>
       \/ /\ anime' = legacy_fetch_playlist(anime, html, None, None)
          /\ all_items' = IF html.kind = "playlist" THEN parse_voice_items(html)
                          ELSE all_items
          /\ pc' = "main_voice"
          /\ UNCHANGED call
    /\ UNCHANGED <<html, sel, stats>>

\* step 3 and the call of get_available_players that follows it
MainSelectVoice ==
    /\ pc = "main_voice"
    /\ LET chosen(voice_id) ==
            LET players == legacy_get_available_players(all_items, voice_id)
            IN /\ sel' = [voice_id |-> voice_id, player_id |-> None,
                          players |-> players]
               /\ pc' = IF Len(players) = 0 THEN "main_fetch" ELSE "main_player"
               /\ UNCHANGED call
       IN IF call.voice = "1"
          THEN IF Len(anime.voices) >= 1 THEN chosen(anime.voices[1].id)
               ELSE Exit(1, "invalid index") /\ UNCHANGED sel
          ELSE IF call.voice = "x" THEN chosen("x")
          \* select_voice_interactive
          ELSE IF Len(anime.voices) = 0
          THEN Exit(1, "No voice options found") /\ UNCHANGED sel
          ELSE IF Len(anime.voices) = 1 THEN chosen(anime.voices[1].id)
          ELSE \/ \E i \in 1..Len(anime.voices) : chosen(anime.voices[i].id)
               \/ Exit(0, "KeyboardInterrupt at prompt") /\ UNCHANGED sel
    /\ UNCHANGED <<html, anime, all_items, stats>>

\* select_player_interactive, for a voice that has players
MainSelectPlayer ==
    /\ pc = "main_player"
    /\ IF Len(sel.players) = 1
       THEN /\ sel' = [sel EXCEPT !.player_id = sel.players[1].id]
            /\ pc' = "main_fetch"
            /\ UNCHANGED call
       ELSE \/ \E i \in 1..Len(sel.players) :
                /\ sel' = [sel EXCEPT !.player_id = sel.players[i].id]
                /\ pc' = "main_fetch"
                /\ UNCHANGED call
            \/ Exit(0, "KeyboardInterrupt at prompt") /\ UNCHANGED sel
    /\ UNCHANGED <<html, anime, all_items, stats>>

\* steps 4 to 6: fetch_playlist for the selection; without episodes the
\* process exits with 1
MainFetchEpisodes ==
    /\ pc = "main_fetch"
    /\ \/ /\ Exit(1, "except Exception")
          /\ UNCHANGED anime
       \/ LET a == legacy_fetch_playlist(anime, html, sel.voice_id, sel.player_id)
          IN /\ anime' = a
             /\ IF Len(a.episodes) = 0 THEN Exit(1, "No episodes found")
                ELSE pc' = "main_extract" /\ UNCHANGED call
    /\ UNCHANGED <<html, all_items, sel, stats>>

\* steps 7 and 8: extract_all_m3u8_urls sets the URL of the episodes it finds
\* one for; without any the process exits with 1; create_output_directory
\* may raise
MainExtractUrls ==
    /\ pc = "main_extract"
    /\ \E ok \in [1..Len(anime.episodes) -> BOOLEAN] :
        /\ anime' = [anime EXCEPT !.episodes =
                        [i \in 1..Len(anime.episodes) |->
                            IF ok[i]
                            THEN [anime.episodes[i] EXCEPT
                                    !.m3u8_url = StreamUrl(anime.episodes[i])]
                            ELSE anime.episodes[i]]]
        /\ IF \A i \in 1..Len(anime.episodes) : ~ok[i]
           THEN Exit(1, "Could not extract any video URLs")
           ELSE \/ pc' = "main_download" /\ UNCHANGED call
                \/ Exit(1, "except Exception")
    /\ UNCHANGED <<html, all_items, sel, stats>>

\* step 9: download_all_episodes goes through all episodes of anime, those
\* without a URL included, and counts each as success or failed; any failed
\* episode makes the process exit with 1, otherwise main returns
MainDownload ==
    /\ pc = "main_download"
    /\ \E result \in [1..Len(anime.episodes) -> BOOLEAN] :
        /\ \A i \in 1..Len(anime.episodes) :
                anime.episodes[i].m3u8_url = None => ~result[i]
        /\ LET success == Cardinality({i \in 1..Len(anime.episodes) : result[i]})
               s == [total |-> Len(anime.episodes), success |-> success,
                     failed |-> Len(anime.episodes) - success, skipped |-> 0]
           IN /\ stats' = s
              /\ IF s.failed > 0 THEN Exit(1, "failed > 0")
                 ELSE pc' = "returned" /\ UNCHANGED call
    /\ UNCHANGED <<html, anime, all_items, sel>>

\* Ctrl-C while main is inside its try block: `except KeyboardInterrupt`
MainInterrupt ==
    /\ MainRunning /\ pc # "main_start"
    /\ Exit(0, "except KeyboardInterrupt")
    /\ UNCHANGED <<html, anime, all_items, sel, stats>>

SpecMain ==
    InitMain /\ [][MainFetchMetadata \/ MainFetchContent \/ MainSelectVoice
                    \/ MainSelectPlayer \/ MainFetchEpisodes \/ MainExtractUrls
                    \/ MainDownload \/ MainInterrupt]_vars

\* ------------------------------------------------------------ C21
\* the process has ended
C_Ended == pc \in {"exited", "returned"}

\* C21: once the process has ended, its status is 0 when at least one
\* episode was downloaded successfully, and it is 1 only when no episode was
\* downloaded successfully or an exception was caught as fatal.
C21_ExitStatus ==
    C_Ended =>
        /\ stats.success >= 1 => ExitStatus = 0
        /\ ExitStatus = 1 =>
                (stats.success = 0 \/ call.by = "except Exception")

\* ------------------------------------------------------------ C22
\* the process was ended by a KeyboardInterrupt
C_Interrupted ==
    /\ pc = "exited"
    /\ call.by \in {"KeyboardInterrupt at prompt", "except KeyboardInterrupt"}

\* C22: a process ended by a user interrupt, at a prompt or later, has exit
\* status 130.
C22_Interrupt130 == C_Interrupted => ExitStatus = 130

\* -------------------------------------------------- InteractiveSelector
MaxInputs == 2
MaxOptions == 2

\* what input() gives at a prompt: a line of text, or Ctrl-C
KeyboardInterrupt == "KeyboardInterrupt"
Inputs == {"1", "2", "5", "invalid", "", KeyboardInterrupt}

\* int(choice) for the lines above: ok is FALSE for a ValueError
int_of_line(choice) ==
    IF choice = "1" THEN [ok |-> TRUE, value |-> 1]
    ELSE IF choice = "2" THEN [ok |-> TRUE, value |-> 2]
    ELSE IF choice = "5" THEN [ok |-> TRUE, value |-> 5]
    ELSE [ok |-> FALSE, value |-> 0]

Returned(option) == [kind |-> "returned", value |-> option]
SystemExit(code) == [kind |-> "raised", exc |-> "SystemExit", code |-> code]
\* input() has no further line to give: the prompt is still open
AtPrompt == [kind |-> "prompt"]

\* the `while True` loop of select_voice (enter_first FALSE) and of
\* select_player (enter_first TRUE) from the i-th line on
RECURSIVE prompt_loop(_, _, _, _)
prompt_loop(options, lines, i, enter_first) ==
    IF i > Len(lines) THEN AtPrompt
    ELSE IF lines[i] = KeyboardInterrupt THEN SystemExit(0)
    ELSE IF enter_first /\ lines[i] = "" THEN Returned(options[1])
    ELSE LET n == int_of_line(lines[i])
         IN IF n.ok /\ 0 <= n.value - 1 /\ n.value - 1 < Len(options)
            THEN Returned(options[n.value])
            ELSE prompt_loop(options, lines, i + 1, enter_first)

select_voice(voices, lines) ==
    IF Len(voices) = 0 THEN SystemExit(1)
    ELSE IF Len(voices) = 1 THEN Returned(voices[1])
    ELSE prompt_loop(voices, lines, 1, FALSE)

select_player(players, lines) ==
    IF Len(players) = 0 THEN SystemExit(1)
    ELSE IF Len(players) = 1 THEN Returned(players[1])
    ELSE prompt_loop(players, lines, 1, TRUE)

\* the lists offered: the first 0..MaxOptions of these voices / players
SelectorVoices ==
    { [i \in 1..n |-> [id |-> <<"0_0", "0_1", "0_2">>[i], name |-> T_Tonis]] :
        n \in 0..MaxOptions }
SelectorPlayers ==
    { [i \in 1..n |-> [id |-> <<"0_0_0", "0_0_1", "0_0_2">>[i],
                       name |-> T_PlayerMoon]] : n \in 0..MaxOptions }

CallSelectVoice ==
    /\ call = NoCall
    /\ \E voices \in SelectorVoices, lines \in SeqsUpTo(Inputs, MaxInputs) :
        call' = [op |-> "select_voice", options |-> voices, lines |-> lines,
                 result |-> select_voice(voices, lines)]
    /\ UNCHANGED <<html, pc, anime, all_items, sel, stats>>

CallSelectPlayer ==
    /\ call = NoCall
    /\ \E players \in SelectorPlayers, lines \in SeqsUpTo(Inputs, MaxInputs) :
        call' = [op |-> "select_player", options |-> players, lines |-> lines,
                 result |-> select_player(players, lines)]
    /\ UNCHANGED <<html, pc, anime, all_items, sel, stats>>

SpecSelector == InitIdle /\ [][CallSelectVoice \/ CallSelectPlayer]_vars

\* ------------------------------------------------------------ C23
\* the call is one of the selector with an error outcome: an empty list, or
\* a Ctrl-C reached at the prompt
C_SelectorError ==
    /\ call.op \in {"select_voice", "select_player"}
    /\ \/ Len(call.options) = 0
       \/ /\ Len(call.options) >= 2
          /\ call.result.kind = "raised"

\* C23: select_voice raises NoVoicesError for an empty list, select_player
\* raises NoPlayersError for an empty list, and both raise
\* UserCancelledError when Ctrl-C is pressed at the prompt.
C23_TypedExceptions ==
    C_SelectorError =>
        /\ call.result.kind = "raised"
        /\ call.result.exc =
                IF Len(call.options) > 0 THEN "UserCancelledError"
                ELSE IF call.op = "select_voice" THEN "NoVoicesError"
                ELSE "NoPlayersError"

\* ------------------------------------ VideoDownloader.download_episode
\* Runs of download_episode for one episode and one output path, one after
\* another or at the same time.  pc and stats hold, for every run, where it
\* is and what it returned; call holds the output path's state and the
\* number of calls of the download strategy; anime holds the episode.
MaxRuns == 2

Runs == 1..MaxRuns

\* the output path is one of: "absent" (nothing there), "directory",
\* "partial" (a regular file that a download left unfinished) or "complete"
\* (a regular file that is complete)

\* variant: nothing counts as existing
file_exists_never(kind) == FALSE

\* FileSystemManager.file_exists: path.exists() and path.is_file()
file_exists(kind) == kind \in {"partial", "complete"}

NoResult == [success |-> FALSE, message |-> "none"]
Result(success, message) == [success |-> success, message |-> message]

InitDownload ==
    /\ call \in { [op |-> "download_episode", file |-> k, strategy_calls |-> 0] :
                    k \in {"absent", "directory", "complete"} }
    /\ html = NoHtml
    /\ pc = [r \in Runs |-> "called"]
    /\ anime \in { [NoAnime EXCEPT !.episodes = <<e>>] :
                    e \in { Episode(1, "0_0", "a"),
                            [Episode(1, "0_0", "a") EXCEPT
                                !.m3u8_url = StreamUrl(Episode(1, "0_0", "a"))] } }
    /\ all_items = <<>>
    /\ sel = NoSel
    /\ stats = [r \in Runs |-> NoResult]

\* download_episode returns
Return(r, success, message) ==
    /\ pc' = [pc EXCEPT ![r] = "returned"]
    /\ stats' = [stats EXCEPT ![r] = Result(success, message)]

\* `if not episode.m3u8_url` and the filename
DownloadBegin(r) ==
    /\ pc[r] = "called"
    /\ IF anime.episodes[1].m3u8_url = None
       THEN Return(r, FALSE, "has no m3u8_url")
       ELSE pc' = [pc EXCEPT ![r] = "check"] /\ UNCHANGED stats
    /\ UNCHANGED <<call, html, anime, all_items, sel>>

\* variant: the check waits while another run is downloading
DownloadCheck_locked(r) ==
    /\ pc[r] = "check"
    /\ \A o \in Runs \ {r} : pc[o] \notin {"download", "downloading"}
    /\ IF file_exists(call.file)
       THEN Return(r, TRUE, "already exists")
       ELSE pc' = [pc EXCEPT ![r] = "download"] /\ UNCHANGED stats
    /\ UNCHANGED <<call, html, anime, all_items, sel>>

\* `if self.fs_manager.file_exists(output_path)`
DownloadCheck(r) ==
    /\ pc[r] = "check"
    /\ IF file_exists(call.file)
       THEN Return(r, TRUE, "already exists")
       ELSE pc' = [pc EXCEPT ![r] = "download"] /\ UNCHANGED stats
    /\ UNCHANGED <<call, html, anime, all_items, sel>>

\* self.download_strategy.download(...) is called
DownloadInvoke(r) ==
    /\ pc[r] = "download"
    /\ pc' = [pc EXCEPT ![r] = "downloading"]
    /\ call' = [call EXCEPT !.strategy_calls = @ + 1]
    /\ UNCHANGED <<html, anime, all_items, sel, stats>>

\* what a download that does not finish leaves at the output path: what
\* was there, or an unfinished file (a directory stays a directory)
LeftBehind ==
    IF call.file = "directory" THEN {"directory"} ELSE {call.file, "partial"}

\* the strategy returns: TRUE with the file written, or FALSE (also for an
\* exception) with the path as the tool left it
DownloadFinish(r) ==
    /\ pc[r] = "downloading"
    /\ \/ /\ call.file # "directory"
          /\ call' = [call EXCEPT !.file = "complete"]
          /\ Return(r, TRUE, "Successfully downloaded")
       \/ \E k \in LeftBehind :
            /\ call' = [call EXCEPT !.file = k]
            /\ Return(r, FALSE, "Failed to download")
    /\ UNCHANGED <<html, anime, all_items, sel>>

\* the process is killed while the strategy is downloading
DownloadCrash(r) ==
    /\ pc[r] = "downloading"
    /\ \E k \in LeftBehind : call' = [call EXCEPT !.file = k]
    /\ pc' = [pc EXCEPT ![r] = "crashed"]
    /\ UNCHANGED <<html, anime, all_items, sel, stats>>

SpecDownload ==
    InitDownload /\ [][\E r \in Runs : \/ DownloadBegin(r)
                                       \/ DownloadCheck(r)
                                       \/ DownloadInvoke(r)
                                       \/ DownloadFinish(r)
                                       \/ DownloadCrash(r)]_vars

\* ------------------------------------------------------------ C24
\* C24: a run that makes the existence check while the output path holds a
\* regular file returns success with the message "already exists"; the step
\* calls no download strategy and leaves the path as it is.
C24_SkipsExisting ==
    [][\A r \in Runs :
        (pc[r] = "check" /\ pc'[r] # "check"
            /\ call.file \in {"partial", "complete"})
        => /\ pc'[r] = "returned"
           /\ stats'[r] = Result(TRUE, "already exists")
           /\ call' = call]_vars

\* C24 witness: a run has returned "already exists" for a file that was
\* there from the start; no strategy was ever called
C24_Witness ==
    /\ call.op = "download_episode" /\ call.file = "complete"
    /\ call.strategy_calls = 0
    /\ \E r \in Runs : stats[r] = Result(TRUE, "already exists")

\* ------------------------------------------------------------ C25
\* C25: a run that makes the existence check while the output path holds
\* the unfinished file of a crashed download goes on to download.
C25_PartialNotSkipped ==
    [][\A r \in Runs :
        (pc[r] = "check" /\ pc'[r] # "check" /\ call.file = "partial"
            /\ \E o \in Runs : pc[o] = "crashed")
        => pc'[r] = "download"]_vars

\* ------------------------------------------------------------ C28
\* C28: the existence check takes no lock: a run at the check can always
\* make it, whatever the other runs are doing; so a run can pass the check
\* while another has passed it and not yet written the file.
C28_NoLock ==
    \A r \in Runs : pc[r] = "check" => ENABLED DownloadCheck(r)

\* C28 witness: two runs have passed the check and both have called the
\* download strategy for the same output path
C28_Witness ==
    /\ call.op = "download_episode" /\ call.strategy_calls >= 2
    /\ \E r, o \in Runs :
        /\ r # o
        /\ pc[r] = "downloading" /\ pc[o] = "downloading"

\* ------------------------------------------------------------ C26
\* the run is about to extract URLs for a movie whose chosen voice has
\* several players under it; the request of step 4 did not fail
C_NestedMovieAtExtract ==
    /\ pc = "extract" /\ anime.is_movie
    /\ call.op = "ajax_playlist_request" /\ ~call.fails
    /\ Len(extract_players_for_voice(all_items, sel.voice_id)) >= 2

\* C26: for a movie whose voice has several players, the episode list
\* handed to URL extraction (the one resolved for the chosen player) holds
\* exactly one episode.
C26_OneMovieEpisode ==
    C_NestedMovieAtExtract => Len(anime.episodes) = 1

\* ------------------------------------------------------------ C27
\* the number of top-level items: those of the least depth
C_TopLevelCount ==
    Cardinality({i \in 1..Len(all_items) :
        \A j \in 1..Len(all_items) :
            all_items[i].parts_count <= all_items[j].parts_count})

\* fetch_playlist has parsed a nested playlist without series label that
\* has more distinct files than top-level items
C_MoreFilesThanTopLevel ==
    /\ call.op = "resolve"
    /\ \E i, j \in 1..Len(all_items) :
            all_items[i].parts_count < all_items[j].parts_count
    /\ ~has_series_label(get_episode_texts(html))
    /\ Cardinality(get_unique_episode_files(html)) > C_TopLevelCount

\* C27: such a playlist is classified as a series.
C27_TopLevelCount == C_MoreFilesThanTopLevel => ~anime.is_movie

\* ------------------------------------------------ sibling branches
\* Episodes resolved on a playlist that has the branch 0_1 and a branch
\* 0_10 beside it.
MaxBranchVideos == 3

BranchItems == << Item("0_1", T_Tonis), Item("0_1_0", T_PlayerMoon),
                  Item("0_10", T_Tonis), Item("0_10_0", T_PlayerMoon) >>

BranchLis ==
    { [id |-> "0_1", file |-> "a", text |-> T_X],
      [id |-> "0_1_0", file |-> "b", text |-> T_X],
      [id |-> "0_10_0", file |-> "c", text |-> T_X],
      [id |-> "0_1_01", file |-> "d", text |-> T_X] }

\* the selections: a voice, or a voice and one of its players
BranchSelections ==
    { [voice_id |-> "0_1", player_id |-> None],
      [voice_id |-> "0_1", player_id |-> "0_1_0"] }

\* parse_episode_items and extract_episodes as fetch_playlist calls them
CallResolveBranch ==
    /\ call = NoCall
    /\ \E videos \in SeqsUpTo(BranchLis, MaxBranchVideos),
          s \in BranchSelections, is_movie \in BOOLEAN :
        LET page == [kind |-> "playlist", lists |-> <<>>, videos |-> videos]
            parsed == parse_episode_items(page, s.voice_id)
        IN call' = [op |-> "resolve_branch", voice_id |-> s.voice_id,
                    player_id |-> s.player_id, is_movie |-> is_movie,
                    parsed |-> parsed,
                    episodes |-> extract_episodes(parsed, s.voice_id, s.player_id,
                                                  is_movie, BranchItems)]
    /\ UNCHANGED <<html, pc, anime, all_items, sel, stats>>

SpecBranch == InitIdle /\ [][CallResolveBranch]_vars

\* ------------------------------------------------------------ C29
\* id lies in the subtree of p: it is p, or p followed by "_" and more
C_InSubtree(id, p) == id = p \/ StartsWith(id, p \o "_")

\* C29: every item parse_episode_items returns lies in the subtree of the
\* voice id, and every episode extract_episodes returns lies in the subtree
\* of the player id, or of the voice id when no player was chosen.
C29_InSubtree ==
    call.op = "resolve_branch" =>
        /\ \A i \in 1..Len(call.parsed) :
                C_InSubtree(call.parsed[i].data_id, call.voice_id)
        /\ \A i \in 1..Len(call.episodes) :
                C_InSubtree(call.episodes[i].data_id,
                            IF call.player_id = None THEN call.voice_id
                            ELSE call.player_id)

\* ---------------------------------------- legacy and refactored scraper
\* fetch_playlist of aniloader.scraper and of aniloader.scraper_refactored
\* on the same playlist with the same selection, each on a new anime, the
\* request succeeding
CallBothScrapers ==
    /\ call = NoCall
    /\ \E page \in {p \in Pages : p.kind = "playlist"},
          voice_id \in ResolveVoiceIds, player_id \in ResolvePlayerIds :
        /\ html' = page
        /\ call' = [op |-> "fetch_playlist", voice_id |-> voice_id,
                    player_id |-> player_id,
                    legacy |-> legacy_fetch_playlist(NoAnime, page, voice_id,
                                                     player_id),
                    refactored |-> fetch_playlist(NoAnime, <<>>, page, voice_id,
                                                  player_id, FALSE).anime]
    /\ UNCHANGED <<pc, anime, all_items, sel, stats>>

SpecBothScrapers == InitIdle /\ [][CallBothScrapers]_vars

\* ------------------------------------------------------------ C30
\* C30: on every playlist and selection both scrapers give the same
\* content kind, the same voices and the same episodes (ids, files and
\* numbers).
C30_Equivalent ==
    call.op = "fetch_playlist" =>
        /\ call.legacy.is_movie = call.refactored.is_movie
        /\ call.legacy.voices = call.refactored.voices
        /\ call.legacy.episodes = call.refactored.episodes

====
